---- MODULE Spec2Model ----
(***************************************************************************)
(* PesaMirror voice-command pipeline: the intent parser, the contact       *)
(* directory and the command session state machine of useVoiceCommand.     *)
(* Strings are TLA+ strings read character by character; regular           *)
(* expressions are data interpreted by a backtracking matcher that tries   *)
(* alternatives in the priority order of the JavaScript engine.            *)
(***************************************************************************)
EXTENDS Integers, Sequences, FiniteSets, TLC

\* ------------------------------------------------------------------------
\* Characters and strings
\* ------------------------------------------------------------------------
Ch(s, i) == SubSeq(s, i, i)

UpperSeq == "ABCDEFGHIJKLMNOPQRSTUVWXYZ"
LowerSeq == "abcdefghijklmnopqrstuvwxyz"

DigitCh == {"0", "1", "2", "3", "4", "5", "6", "7", "8", "9"}
LowerCh == {Ch(LowerSeq, i) : i \in 1..26}
SpaceCh == {" "}
WordCh  == LowerCh \cup DigitCh \cup {"_"}

UpperCh == {Ch(UpperSeq, i) : i \in 1..26}
LowerOfUpper ==
  [c \in UpperCh |-> Ch(LowerSeq, CHOOSE i \in 1..26 : Ch(UpperSeq, i) = c)]

ToLowerCh(c) == IF c \in UpperCh THEN LowerOfUpper[c] ELSE c

RECURSIVE toLowerCase(_)
toLowerCase(s) ==
  IF s = "" THEN "" ELSE ToLowerCh(Head(s)) \o toLowerCase(Tail(s))

RECURSIVE trimStart(_)
trimStart(s) ==
  IF s # "" /\ Head(s) \in SpaceCh THEN trimStart(Tail(s)) ELSE s

RECURSIVE trimEnd(_)
trimEnd(s) ==
  IF s # "" /\ Ch(s, Len(s)) \in SpaceCh
  THEN trimEnd(SubSeq(s, 1, Len(s) - 1))
  ELSE s

trim(s) == trimEnd(trimStart(s))

startsWith(s, p) == Len(p) <= Len(s) /\ SubSeq(s, 1, Len(p)) = p

\* s.replace(/[set]/g, '')
RECURSIVE StripChars(_, _)
StripChars(s, set) ==
  IF s = "" THEN ""
  ELSE (IF Head(s) \in set THEN "" ELSE Head(s)) \o StripChars(Tail(s), set)

\* s.split(/\s+/): the maximal runs of non-space characters; a leading or
\* trailing separator yields an empty first or last word.
RECURSIVE SplitFrom(_, _)
SplitFrom(s, cur) ==
  IF s = "" THEN <<cur>>
  ELSE IF Head(s) \in SpaceCh
       THEN <<cur>> \o SplitFrom(trimStart(s), "")
       ELSE SplitFrom(Tail(s), cur \o Head(s))

splitWords(s) == SplitFrom(s, "")

\* ------------------------------------------------------------------------
\* Regular expressions (all of the program's patterns carry the i flag)
\* ------------------------------------------------------------------------
Inf == -1

Lit(w)        == [k |-> "lit", w |-> w]
Cls(c)        == [k |-> "cls", c |-> c]
Cat(rs)       == [k |-> "cat", rs |-> rs]
Alt(rs)       == [k |-> "alt", rs |-> rs]
Rep(r, lo, hi, greedy) == [k |-> "rep", r |-> r, lo |-> lo, hi |-> hi, greedy |-> greedy]
Grp(n, r)     == [k |-> "grp", n |-> n, r |-> r]
AtStart       == [k |-> "start"]
AtEnd         == [k |-> "end"]

Star(r)     == Rep(r, 0, Inf, TRUE)
Plus(r)     == Rep(r, 1, Inf, TRUE)
Opt(r)      == Rep(r, 0, 1, TRUE)
LazyStar(r) == Rep(r, 0, Inf, FALSE)
LazyPlus(r) == Rep(r, 1, Inf, FALSE)

NoCaps == <<"", "", "">>

\* Run(re, s, i, caps): the ways re matches s from position i, in the order
\* the backtracking engine tries them; each is the position after the match
\* and the capture groups.
RECURSIVE Run(_, _, _, _)
RECURSIVE RunEach(_, _, _)
RECURSIVE RunAlts(_, _, _, _)

RunEach(found, re, s) ==
  IF found = <<>> THEN <<>>
  ELSE Run(re, s, Head(found).pos, Head(found).caps) \o RunEach(Tail(found), re, s)

RunAlts(rs, s, i, caps) ==
  IF rs = <<>> THEN <<>>
  ELSE Run(Head(rs), s, i, caps) \o RunAlts(Tail(rs), s, i, caps)

Run(re, s, i, caps) ==
  LET here == << [pos |-> i, caps |-> caps] >> IN
  CASE re.k = "lit" ->
         IF i + Len(re.w) - 1 <= Len(s)
            /\ toLowerCase(SubSeq(s, i, i + Len(re.w) - 1)) = re.w
         THEN << [pos |-> i + Len(re.w), caps |-> caps] >>
         ELSE <<>>
    [] re.k = "cls" ->
         IF i <= Len(s) /\ ToLowerCh(Ch(s, i)) \in re.c
         THEN << [pos |-> i + 1, caps |-> caps] >>
         ELSE <<>>
    [] re.k = "cat" ->
         IF re.rs = <<>> THEN here
         ELSE RunEach(Run(Head(re.rs), s, i, caps), Cat(Tail(re.rs)), s)
    [] re.k = "alt" -> RunAlts(re.rs, s, i, caps)
    [] re.k = "rep" ->
         IF re.hi = 0 THEN here
         ELSE LET once == SelectSeq(Run(re.r, s, i, caps), LAMBDA f : f.pos > i)
                  rest == Rep(re.r,
                              IF re.lo > 0 THEN re.lo - 1 ELSE 0,
                              IF re.hi = Inf THEN Inf ELSE re.hi - 1,
                              re.greedy)
                  more == RunEach(once, rest, s)
              IN  IF re.lo > 0 THEN more
                  ELSE IF re.greedy THEN more \o here ELSE here \o more
    [] re.k = "grp" ->
         LET inner == Run(re.r, s, i, caps) IN
         [j \in 1..Len(inner) |->
            [pos  |-> inner[j].pos,
             caps |-> [inner[j].caps EXCEPT ![re.n] = SubSeq(s, i, inner[j].pos - 1)]]]
    [] re.k = "start" -> IF i = 1 THEN here ELSE <<>>
    [] re.k = "end"   -> IF i = Len(s) + 1 THEN here ELSE <<>>

NoMatch == [found |-> FALSE, caps |-> NoCaps]

\* s.match(re) / re.test(s) for a pattern without the g flag: the first
\* start position with a match, and the engine's first match there.
RECURSIVE MatchFrom(_, _, _)
MatchFrom(re, s, i) ==
  IF i > Len(s) + 1 THEN NoMatch
  ELSE LET found == Run(re, s, i, NoCaps) IN
       IF found # <<>> THEN [found |-> TRUE, caps |-> Head(found).caps]
       ELSE IF re.k = "cat" /\ re.rs # <<>> /\ Head(re.rs).k = "start" THEN NoMatch
       ELSE MatchFrom(re, s, i + 1)

Match(re, s) == MatchFrom(re, s, 1)
Test(re, s)  == Match(re, s).found

\* ------------------------------------------------------------------------
\* Intent parser
\* ------------------------------------------------------------------------
Ws1 == Plus(Cls(SpaceCh))
Ws0 == Star(Cls(SpaceCh))
Digits1 == Plus(Cls(DigitCh))

\* '(\\d+(?:[,.]\\d+)?)' etc.; n is the number of the capture group
AMOUNT_RE(n) == Grp(n, Cat(<<Digits1, Opt(Cat(<<Cls({",", "."}), Digits1>>))>>))
PHONE_OR_NAME_RE(n) == Grp(n, LazyPlus(Cls(WordCh \cup SpaceCh)))
NUMBER_RE(n) == Grp(n, Digits1)

NoIntent == [type |-> "null"]

normalizeAmount(raw) == StripChars(raw, {","})

SendRe ==
  Cat(<<AtStart, Lit("send"), Ws1, AMOUNT_RE(1), Ws1,
        Opt(Alt(<<Cat(<<Lit("shilling"), Opt(Lit("s"))>>), Lit("bob"), Lit("kes")>>)),
        Ws0, Lit("to"), Ws1, PHONE_OR_NAME_RE(2), AtEnd>>)

PochiRe ==
  Cat(<<AtStart, Lit("pochi"), Ws1, AMOUNT_RE(1), Ws1, Lit("to"), Ws1,
        PHONE_OR_NAME_RE(2), AtEnd>>)

PaybillRe ==
  Cat(<<AtStart, Lit("pay"), Ws0, Lit("bill"), Ws1, NUMBER_RE(1), Ws1,
        Lit("account"), Ws1, NUMBER_RE(2), Ws1,
        Opt(Cat(<<Lit("amount"), Ws1>>)), AMOUNT_RE(3), AtEnd>>)

TillRe ==
  Cat(<<AtStart,
        Alt(<<Cat(<<Lit("pay"), Ws1, Lit("till")>>), Cat(<<Lit("buy"), Ws1, Lit("goods")>>)>>),
        Ws1, NUMBER_RE(1), Ws1, Opt(Cat(<<Lit("amount"), Ws1>>)), AMOUNT_RE(2), AtEnd>>)

WithdrawRe ==
  Cat(<<AtStart, Lit("withdraw"), Ws1, AMOUNT_RE(1), Ws1, Lit("agent"), Ws1,
        NUMBER_RE(2), Ws1, Lit("store"), Ws1, NUMBER_RE(3), AtEnd>>)

NamedRe ==
  Cat(<<AtStart,
        Alt(<<Lit("pay"), Cat(<<Lit("buy"), Ws1, Alt(<<Lit("at"), Lit("from")>>)>>)>>),
        Ws1,
        Grp(1, Cat(<<Cls(LowerCh), LazyStar(Cls(LowerCh \cup DigitCh \cup SpaceCh))>>)),
        Ws1, Opt(Cat(<<Lit("amount"), Ws1>>)), AMOUNT_RE(2), AtEnd>>)

\* mutant: the generic pay <name> <amount> template is tried first
M_parseIntentNamedFirst(transcript) ==
  LET t == trim(transcript)
      sendMatch     == Match(SendRe, t)
      pochiMatch    == Match(PochiRe, t)
      paybillMatch  == Match(PaybillRe, t)
      tillMatch     == Match(TillRe, t)
      withdrawMatch == Match(WithdrawRe, t)
      namedMatch    == Match(NamedRe, t)
  IN  IF namedMatch.found
        THEN [type |-> "NAMED_PAYMENT", contactName |-> trim(namedMatch.caps[1]),
              amount |-> normalizeAmount(namedMatch.caps[2])]
      ELSE IF sendMatch.found
        THEN [type |-> "SEND_MONEY", amount |-> normalizeAmount(sendMatch.caps[1]),
              phone |-> trim(sendMatch.caps[2])]
      ELSE IF pochiMatch.found
        THEN [type |-> "POCHI", amount |-> normalizeAmount(pochiMatch.caps[1]),
              phone |-> trim(pochiMatch.caps[2])]
      ELSE IF paybillMatch.found
        THEN [type |-> "PAYBILL", amount |-> normalizeAmount(paybillMatch.caps[3]),
              business |-> paybillMatch.caps[1], account |-> paybillMatch.caps[2]]
      ELSE IF tillMatch.found
        THEN [type |-> "TILL", amount |-> normalizeAmount(tillMatch.caps[2]),
              till |-> tillMatch.caps[1]]
      ELSE IF withdrawMatch.found
        THEN [type |-> "WITHDRAW", amount |-> normalizeAmount(withdrawMatch.caps[1]),
              agent |-> withdrawMatch.caps[2], store |-> withdrawMatch.caps[3]]
      ELSE NoIntent

parseIntent(transcript) ==
  LET t == trim(transcript)
      sendMatch     == Match(SendRe, t)
      pochiMatch    == Match(PochiRe, t)
      paybillMatch  == Match(PaybillRe, t)
      tillMatch     == Match(TillRe, t)
      withdrawMatch == Match(WithdrawRe, t)
      namedMatch    == Match(NamedRe, t)
  IN  IF sendMatch.found
        THEN [type |-> "SEND_MONEY", amount |-> normalizeAmount(sendMatch.caps[1]),
              phone |-> trim(sendMatch.caps[2])]
      ELSE IF pochiMatch.found
        THEN [type |-> "POCHI", amount |-> normalizeAmount(pochiMatch.caps[1]),
              phone |-> trim(pochiMatch.caps[2])]
      ELSE IF paybillMatch.found
        THEN [type |-> "PAYBILL", amount |-> normalizeAmount(paybillMatch.caps[3]),
              business |-> paybillMatch.caps[1], account |-> paybillMatch.caps[2]]
      ELSE IF tillMatch.found
        THEN [type |-> "TILL", amount |-> normalizeAmount(tillMatch.caps[2]),
              till |-> tillMatch.caps[1]]
      ELSE IF withdrawMatch.found
        THEN [type |-> "WITHDRAW", amount |-> normalizeAmount(withdrawMatch.caps[1]),
              agent |-> withdrawMatch.caps[2], store |-> withdrawMatch.caps[3]]
      ELSE IF namedMatch.found
        THEN [type |-> "NAMED_PAYMENT", contactName |-> trim(namedMatch.caps[1]),
              amount |-> normalizeAmount(namedMatch.caps[2])]
      ELSE NoIntent

describeIntent(intent) ==
  CASE intent.type = "SEND_MONEY" ->
         "Send " \o intent.amount \o " shillings to " \o intent.phone \o "."
    [] intent.type = "POCHI" ->
         "Pochi " \o intent.amount \o " shillings to " \o intent.phone \o "."
    [] intent.type = "PAYBILL" ->
         "Pay bill " \o intent.business \o ", account " \o intent.account
           \o ", amount " \o intent.amount \o " shillings."
    [] intent.type = "TILL" ->
         "Buy goods at till " \o intent.till \o ", amount " \o intent.amount \o " shillings."
    [] intent.type = "WITHDRAW" ->
         "Withdraw " \o intent.amount \o " shillings from agent " \o intent.agent
           \o ", store " \o intent.store \o "."
    [] intent.type = "NAMED_PAYMENT" ->
         "Pay " \o intent.amount \o " shillings to " \o intent.contactName \o "."

\* ------------------------------------------------------------------------
\* Contact directory: pure parts
\* ------------------------------------------------------------------------
\* An optional field that is absent (contact.type, contact.accountNumber)
Absent == ""

\* contacts.find / findIndex: hits[i] tells whether entry i passes the test;
\* the first index that does, 0 when none does
FirstIndex(hits) ==
  IF \E i \in DOMAIN hits : hits[i]
  THEN CHOOSE i \in DOMAIN hits : hits[i] /\ \A j \in 1..(i - 1) : ~hits[j]
  ELSE 0

\* /^[+\d\s\-()]{7,15}$/
PhoneRe ==
  Cat(<<AtStart, Rep(Cls(DigitCh \cup SpaceCh \cup {"+", "-", "(", ")"}), 7, 15, TRUE), AtEnd>>)

isPhoneNumber(s) == Test(PhoneRe, s)

normalizePhone(phone) ==
  LET p == StripChars(phone, SpaceCh \cup {"-", "(", ")"}) IN
  IF startsWith(p, "+254") THEN "0" \o SubSeq(p, 5, Len(p)) ELSE p

\* queryWords.every((w) => nameWords.some((nw) => nw.startsWith(w)))
WordOverlap(name, lower) ==
  LET queryWords == splitWords(lower)
      nameWords  == splitWords(toLowerCase(name))
  IN  \A i \in 1..Len(queryWords) :
        \E j \in 1..Len(nameWords) : startsWith(nameWords[j], queryWords[i])

\* mutant: the first contact that passes any of the three tests
M_LookupIndexAnyStage(contacts, lower) ==
  FirstIndex([i \in 1..Len(contacts) |->
                \/ toLowerCase(contacts[i].name) = lower
                \/ startsWith(toLowerCase(contacts[i].name), lower)
                \/ WordOverlap(contacts[i].name, lower)])

\* the three lookup stages shared by the two resolvers; 0 when none matches
LookupIndex(contacts, lower) ==
  LET n       == Len(contacts)
      exact   == FirstIndex([i \in 1..n |-> toLowerCase(contacts[i].name) = lower])
      partial == FirstIndex([i \in 1..n |-> startsWith(toLowerCase(contacts[i].name), lower)])
      overlap == FirstIndex([i \in 1..n |-> WordOverlap(contacts[i].name, lower)])
  IN  IF exact # 0 THEN exact
      ELSE IF partial # 0 THEN partial
      ELSE overlap

NoPhone   == [found |-> FALSE, phone |-> ""]
NoContact == [name |-> "", type |-> Absent, phone |-> "", accountNumber |-> Absent]

\* mutant: the lookup runs over the contacts of every type
M_resolvePhoneOrNameUnfiltered(contacts, query) ==
  LET cleaned == trim(query)
      idx     == LookupIndex(contacts, toLowerCase(cleaned))
  IN  IF isPhoneNumber(cleaned) THEN [found |-> TRUE, phone |-> normalizePhone(cleaned)]
      ELSE IF idx # 0 THEN [found |-> TRUE, phone |-> contacts[idx].phone]
      ELSE NoPhone

\* mutant: the directory is consulted before the shape of the query
M_resolvePhoneOrNameLookupFirst(contacts, query) ==
  LET cleaned == trim(query)
      mobiles == SelectSeq(contacts,
                   LAMBDA c : c.type = Absent \/ c.type = "mobile" \/ c.type = "pochi")
      idx     == LookupIndex(mobiles, toLowerCase(cleaned))
  IN  IF idx # 0 THEN [found |-> TRUE, phone |-> mobiles[idx].phone]
      ELSE IF isPhoneNumber(cleaned) THEN [found |-> TRUE, phone |-> normalizePhone(cleaned)]
      ELSE NoPhone

resolvePhoneOrName(contacts, query) ==
  LET cleaned == trim(query)
      mobiles == SelectSeq(contacts,
                   LAMBDA c : c.type = Absent \/ c.type = "mobile" \/ c.type = "pochi")
      idx     == LookupIndex(mobiles, toLowerCase(cleaned))
  IN  IF isPhoneNumber(cleaned) THEN [found |-> TRUE, phone |-> normalizePhone(cleaned)]
      ELSE IF idx # 0 THEN [found |-> TRUE, phone |-> mobiles[idx].phone]
      ELSE NoPhone

resolveContact(contacts, query) ==
  LET idx == LookupIndex(contacts, toLowerCase(trim(query))) IN
  IF idx # 0 THEN contacts[idx] ELSE NoContact

\* mutant: the entry is always pushed
M_SavedListPushes(contacts, contact) ==
  LET isMobileType == contact.type = Absent \/ contact.type = "mobile" \/ contact.type = "pochi"
      phone    == IF isMobileType THEN normalizePhone(contact.phone)
                  ELSE StripChars(contact.phone, SpaceCh)
      entry    == [name |-> contact.name,
                   type |-> IF contact.type = Absent THEN "mobile" ELSE contact.type,
                   phone |-> phone,
                   accountNumber |-> trim(contact.accountNumber)]
  IN  Append(contacts, entry)

\* the list saveVoiceContact hands to persistContacts
SavedList(contacts, contact) ==
  LET isMobileType == contact.type = Absent \/ contact.type = "mobile" \/ contact.type = "pochi"
      phone    == IF isMobileType THEN normalizePhone(contact.phone)
                  ELSE StripChars(contact.phone, SpaceCh)
      existing == FirstIndex([i \in 1..Len(contacts) |->
                                toLowerCase(contacts[i].name) = toLowerCase(contact.name)])
      entry    == [name |-> contact.name,
                   type |-> IF contact.type = Absent THEN "mobile" ELSE contact.type,
                   phone |-> phone,
                   accountNumber |-> trim(contact.accountNumber)]
  IN  IF existing > 0 THEN [contacts EXCEPT ![existing] = entry]
      ELSE Append(contacts, entry)

\* ------------------------------------------------------------------------
\* Bounds and inputs
\* ------------------------------------------------------------------------
\* number of start() calls in one behaviour
MaxStarts == 2

\* what the main capture can hear: the user of one behaviour speaks the
\* phrases of one vocabulary
Vocabularies ==
  << { "send 500 shillings to Dav", "pay naivas 300", "pay zuku 100", "hello",
       "pochi 50 to mama mboga" },
     { "pay bill 247247 account 1234 amount 500", "buy goods 522533 amount 1,000",
       "withdraw 2000 agent 123456 store 789", "send 50 to 12345" },
     { "pay kplc 100", "pay mama 50", "pay otieno 20", "pay david 1,500", "pay nobody 10" },
     { "send 200 to nobody", "pochi 50 to zuku", "Send 1,000 bob to DAVID",
       "pochi 50 to 0700 111 222", "send 200 to 2pac" } >>

Transcripts == UNION {Vocabularies[v] : v \in DOMAIN Vocabularies}

\* what the confirmation capture can hear
Responses == { " Yes please", "OKAY", "no", "not yes" }

\* a rejected listenOnce: an Error with a message, or a value that is no Error
NotAnError == ""
CaptureErrors == { "No speech detected.", NotAnError }

InitialDirectory ==
  << [name |-> "David",      type |-> "mobile",  phone |-> "0712345678", accountNumber |-> Absent],
     [name |-> "Mama Mboga", type |-> "pochi",   phone |-> "0700111222", accountNumber |-> Absent],
     [name |-> "Naivas",     type |-> "till",    phone |-> "522533",     accountNumber |-> Absent],
     [name |-> "Zuku",       type |-> "paybill", phone |-> "320320",     accountNumber |-> Absent],
     [name |-> "Otieno",     type |-> Absent,    phone |-> "0733000111", accountNumber |-> Absent],
     [name |-> "KPLC",       type |-> "paybill", phone |-> "888880",     accountNumber |-> "1234"] >>

\* the directory before the first save, and a filled one
Directories == { <<>>, InitialDirectory }

\* The patterns are matched once per input; the tables hold the results.
ParsedOf       == [t \in Transcripts |-> parseIntent(t)]
Parsed(raw)    == IF raw \in Transcripts THEN ParsedOf[raw] ELSE parseIntent(raw)

\* ------------------------------------------------------------------------
\* Command session state machine (useVoiceCommand)
\* ------------------------------------------------------------------------
VARIABLES
  state,             \* useState<VoiceCommandState>
  transcript,        \* useState('')
  pendingIntent,     \* useState<ParsedIntent | null>
  errorMessage,      \* useState('')
  pendingIntentRef,  \* useRef<ParsedIntent | null>
  transcriptRef,     \* useRef('')
  isSupported,       \* isSpeechRecognitionSupported()
  runs,              \* the activations of start(), one per call, with their locals
  cache,             \* _cache of the contact directory
  persisted,         \* the collection held in storage
  persisting,        \* persistContacts calls suspended at the encryption
  persistMeta,       \* per suspended call: whether its passphrase is the one
                     \* now stored, and whether initVoiceContacts made it
  initialised,       \* _cache !== null (cache holds _cache when it is not null)
  session,           \* sessionStorage[SESSION_KEY]
  storage,           \* localStorage: what STORAGE_KEY holds, whether
                     \* STORAGE_KEY_PASSPHRASE is set, and whether it is the
                     \* passphrase of the blob held
  decrypting,        \* initVoiceContacts calls suspended at the decryption
  prefs,             \* SecurePrefs of the Android receiver
  services,          \* FirebaseTriggerService starts requested and not yet delivered
  effects,           \* the calls the latest step made on the collaborators
  last,              \* the latest step: operation, activation, input
  setStates,         \* the values the latest step passed to setState, in order
  vocabulary,        \* the phrases the user speaks (index in Vocabularies)
  pendingOwner       \* history: the activation that set pendingIntentRef

vars == << state, transcript, pendingIntent, errorMessage, pendingIntentRef,
           transcriptRef, isSupported, runs, cache, persisted, persisting,
           persistMeta, initialised, session, storage, decrypting,
           prefs, services,
           effects, last, setStates, vocabulary, pendingOwner >>

receiverVars == << prefs, services >>

\* the preferences of an installation on which nothing has been set
FreshPrefs ==
  [pushTriggerEnabled |-> FALSE, pin |-> "", pending |-> FALSE, ussdState |-> "",
   mode |-> "", amount |-> "", phone |-> "", till |-> "", business |-> "",
   account |-> "", agent |-> "", store |-> ""]

\* what a persistContacts call changes before it is suspended, and what the
\* initialization and the session storage hold
callVars == << persisting, persistMeta, storage >>
loadVars == << initialised, session, decrypting >>

NoSession == [present |-> FALSE, contacts |-> <<>>]
InSession(contacts) == [present |-> TRUE, contacts |-> contacts]

NoStorage == [raw |-> "none", readable |-> FALSE, passphrase |-> FALSE]
Encrypted(readable) == [raw |-> "blob", readable |-> readable, passphrase |-> TRUE]

\* the directory has been initialized from what the storage holds and
\* nothing is suspended
Loaded ==
  /\ initialised = TRUE
  /\ session = IF persisted = <<>> THEN NoSession ELSE InSession(persisted)
  /\ storage = IF persisted = <<>> THEN NoStorage ELSE Encrypted(TRUE)
  /\ decrypting = <<>>
  /\ persistMeta = <<>>

\* persistContacts(contacts) up to its await: the passphrase is read, or
\* made by randomPassphrase() and stored when there is none; a passphrase
\* made anew is not the one of the blob held
PersistContacts(contacts, fromInit) ==
  /\ persisting' = Append(persisting, contacts)
  /\ persistMeta' = Append(persistMeta, [current |-> TRUE, fromInit |-> fromInit])
  /\ storage' = [storage EXCEPT !.passphrase = TRUE]

\* getVoiceContacts(): the value returned; a call made while _cache is null
\* adopts what the session storage holds
getVoiceContacts ==
  IF initialised THEN cache
  ELSE IF session.present THEN session.contacts
  ELSE <<>>

GetVoiceContacts ==
  IF ~initialised /\ session.present
  THEN cache' = session.contacts /\ initialised' = TRUE
  ELSE UNCHANGED <<cache, initialised>>

hookVars == << state, transcript, pendingIntent, errorMessage, pendingIntentRef, transcriptRef >>

ConcreteTypes == {"SEND_MONEY", "POCHI", "PAYBILL", "TILL", "WITHDRAW"}

\* calls on the collaborators
Speak(text)        == [call |-> "speak", text |-> text]
CancelSpeech       == [call |-> "cancelSpeech"]
ListenOnce         == [call |-> "listenOnce"]
Describe(intent)   == [call |-> "describeIntent", intent |-> intent]
Submit(intent)     == [call |-> "onVoiceSubmit", intent |-> intent]
Dismiss            == [call |-> "onDismiss"]
SaveCall(contact)  == [call |-> "saveVoiceContact", contact |-> contact]

Calls(kind) == {i \in 1..Len(effects) : effects[i].call = kind}

UnsupportedMsg == "Voice commands are not supported in this browser. Try Chrome or Safari."
DefaultCaptureMsg == "Could not capture audio."
ParseFailMsg == "Sorry, I didn't catch that. Try: send 500 shillings to 0712345678."
UnknownPhoneMsg(phone) ==
  "I couldn't find \"" \o phone \o "\" in your contacts. Add them first, or say a phone number directly."
UnknownContactMsg(name) ==
  "I couldn't find \"" \o name \o "\" in your contacts. Add it first under Voice Contacts."
NeedsAccountMsg(contact, amount) ==
  contact.name \o " needs an account number. Edit the contact to add one, or say: pay bill "
    \o contact.phone \o " account <number> " \o amount
ConfirmPrompt(description) == description \o " Say yes to confirm, or no to cancel."
RetryPrompt == "I couldn't hear you. Tap yes or no on screen."
SendingMsg == "Perfect, sending now via remote push."
CancelledByVoiceMsg == "Okay, no problem. Cancelled."
CancelledMsg == "Okay, cancelled."

\* pc, raw, intent, named: where the activation is suspended and its locals;
\* cancelled, abandoned, submits: history of a suspended activation (cancel()
\* ran since it began; a later start() cleared the pending intent it had set;
\* the onVoiceSubmit calls made with its intent)
FreshRun == [pc |-> "listen_main", raw |-> "", intent |-> NoIntent, named |-> FALSE,
             cancelled |-> FALSE, abandoned |-> FALSE, submits |-> 0]
FinishedRun == [FreshRun EXCEPT !.pc = "done"]

\* the record of a step taken for activation r (0: for none) that made n
\* onVoiceSubmit calls, with the activation's history up to and with the step
Step(op, r, input, n) ==
  LET known == r \in 1..Len(runs) IN
  [op |-> op, run |-> r, input |-> input,
   cancelled |-> known /\ runs[r].cancelled,
   abandoned |-> known /\ runs[r].abandoned,
   submits   |-> (IF known THEN runs[r].submits ELSE 0) + n]

\* reset()
Reset ==
  /\ state' = "idle"
  /\ transcript' = ""
  /\ pendingIntent' = NoIntent
  /\ pendingIntentRef' = NoIntent
  /\ transcriptRef' = ""
  /\ errorMessage' = ""

\* setError(msg); the caller leaves the other hook variables as they are
SetError(msg) ==
  /\ state' = "error"
  /\ errorMessage' = msg

\* /to\s+([a-z\s]+?)(?:\s*$)/i
NameClauseRe ==
  Cat(<<Lit("to"), Ws1, Grp(1, LazyPlus(Cls(LowerCh \cup SpaceCh))), Ws0, AtEnd>>)

StartsWithDigitRe == Cat(<<AtStart, Cls(DigitCh)>>)

\* nameMatch?.[1]?.trim(), and whether the name passes the tests on it
SpokenName(raw) ==
  LET nameMatch == Match(NameClauseRe, raw)
      rawName   == IF nameMatch.found THEN trim(nameMatch.caps[1]) ELSE ""
  IN  [rawName |-> rawName, usable |-> rawName # "" /\ ~Test(StartsWithDigitRe, rawName)]

SpokenNameOf == [t \in Transcripts \cup {""} |-> SpokenName(t)]

\* the contact executeConfirm saves, or NoContact when it saves none
AutoSaveContact(intent, raw) ==
  LET spoken  == IF raw \in DOMAIN SpokenNameOf THEN SpokenNameOf[raw] ELSE SpokenName(raw)
      rawName == spoken.rawName
  IN  IF spoken.usable /\ intent.type \in {"SEND_MONEY", "POCHI"}
      THEN [name |-> rawName, type |-> Absent, phone |-> intent.phone, accountNumber |-> Absent]
      ELSE NoContact

\* mutant: the completion phrase is spoken before synthesis is cancelled
M_ExecuteConfirmCancelsLate(intent, raw, before) ==
  \E contact \in {AutoSaveContact(intent, raw)} :
  LET saves == contact # NoContact
  IN  /\ IF saves THEN PersistContacts(SavedList(cache, contact), FALSE)
         ELSE UNCHANGED callVars
      /\ Reset
      /\ effects' = before
                    \o (IF saves THEN <<SaveCall(contact)>> ELSE <<>>)
                    \o <<Speak(SendingMsg), CancelSpeech, Dismiss, Submit(intent)>>
      /\ pendingOwner' = 0

\* executeConfirm(intent, raw) for the intent of activation r, reached by
\* voice or by tap; before holds the calls the caller made first
ExecuteConfirm(intent, raw, before) ==
  \E contact \in {AutoSaveContact(intent, raw)} :
  LET saves == contact # NoContact
  IN  /\ IF saves THEN PersistContacts(SavedList(cache, contact), FALSE)
         ELSE UNCHANGED callVars
      /\ Reset
      /\ effects' = before
                    \o (IF saves THEN <<SaveCall(contact)>> ELSE <<>>)
                    \o <<CancelSpeech, Speak(SendingMsg), Dismiss, Submit(intent)>>
      /\ pendingOwner' = 0

\* /^(yes|yeah|yep|yup|confirm|send|do it|go|ok|okay)/i
AffirmativeRe ==
  Cat(<<AtStart,
        Grp(1, Alt(<<Lit("yes"), Lit("yeah"), Lit("yep"), Lit("yup"), Lit("confirm"),
                     Lit("send"), Lit("do it"), Lit("go"), Lit("ok"), Lit("okay")>>))>>)

\* mutants of the two tests: the utterance is not trimmed; every utterance passes
M_ConfirmTestNamedUntrimmed(response) == Test(AffirmativeRe, response)
M_ConfirmTestDirectAlways(response) == TRUE

\* the test of the NAMED_PAYMENT branch
ConfirmTestNamed(response) == Test(AffirmativeRe, trim(response))

\* the test of the direct branch
ConfirmTestDirect(response) == Test(AffirmativeRe, trim(response))

ConfirmTestOf ==
  [named \in BOOLEAN, response \in Responses |->
     IF named THEN ConfirmTestNamed(response) ELSE ConfirmTestDirect(response)]

Failed(msg) == [ok |-> FALSE, error |-> msg, intent |-> NoIntent, named |-> FALSE]
Resolved(intent, named) == [ok |-> TRUE, error |-> "", intent |-> intent, named |-> named]

\* mutant: the intent is read back as parsed, not rewritten
M_ResolveNamedUnrewritten(intent, contacts) ==
  IF resolveContact(contacts, intent.contactName) = NoContact
  THEN Failed(UnknownContactMsg(intent.contactName))
  ELSE Resolved(intent, TRUE)

\* mutant: a paybill contact is not checked for its account number
M_ResolveNamedNoAccountCheck(intent, contacts) ==
  LET contact == resolveContact(contacts, intent.contactName) IN
  IF contact = NoContact THEN Failed(UnknownContactMsg(intent.contactName))
  ELSE IF contact.type = "till"
    THEN Resolved([type |-> "TILL", amount |-> intent.amount, till |-> contact.phone], TRUE)
  ELSE IF contact.type = "paybill"
    THEN Resolved([type |-> "PAYBILL", amount |-> intent.amount,
                   business |-> contact.phone, account |-> contact.accountNumber], TRUE)
  ELSE IF contact.type = "pochi"
    THEN Resolved([type |-> "POCHI", amount |-> intent.amount, phone |-> contact.phone], TRUE)
  ELSE Resolved([type |-> "SEND_MONEY", amount |-> intent.amount, phone |-> contact.phone], TRUE)

\* mutant: a pochi contact is paid like a mobile one
M_ResolveNamedPochiAsMobile(intent, contacts) ==
  LET contact     == resolveContact(contacts, intent.contactName)
      contactType == IF contact.type = Absent THEN "mobile" ELSE contact.type
  IN  IF contact = NoContact THEN Failed(UnknownContactMsg(intent.contactName))
      ELSE IF contactType = "till"
        THEN Resolved([type |-> "TILL", amount |-> intent.amount, till |-> contact.phone], TRUE)
      ELSE IF contactType = "paybill"
        THEN IF contact.accountNumber = Absent
             THEN Failed(NeedsAccountMsg(contact, intent.amount))
             ELSE Resolved([type |-> "PAYBILL", amount |-> intent.amount,
                            business |-> contact.phone, account |-> contact.accountNumber], TRUE)
      ELSE Resolved([type |-> "SEND_MONEY", amount |-> intent.amount, phone |-> contact.phone], TRUE)

\* the NAMED_PAYMENT branch of start(): the contact's type picks the variant
ResolveNamed(intent, contacts) ==
  LET contact     == resolveContact(contacts, intent.contactName)
      contactType == IF contact.type = Absent THEN "mobile" ELSE contact.type
  IN  IF contact = NoContact THEN Failed(UnknownContactMsg(intent.contactName))
      ELSE IF contactType = "till"
        THEN Resolved([type |-> "TILL", amount |-> intent.amount, till |-> contact.phone], TRUE)
      ELSE IF contactType = "paybill"
        THEN IF contact.accountNumber = Absent
             THEN Failed(NeedsAccountMsg(contact, intent.amount))
             ELSE Resolved([type |-> "PAYBILL", amount |-> intent.amount,
                            business |-> contact.phone, account |-> contact.accountNumber], TRUE)
      ELSE IF contactType = "pochi"
        THEN Resolved([type |-> "POCHI", amount |-> intent.amount, phone |-> contact.phone], TRUE)
      ELSE Resolved([type |-> "SEND_MONEY", amount |-> intent.amount, phone |-> contact.phone], TRUE)

\* mutant: the spoken target is kept when the directory resolves it
M_ResolveTranscriptKeepsTarget(raw, contacts) ==
  LET intent == Parsed(raw) IN
  IF intent = NoIntent THEN Failed(ParseFailMsg)
  ELSE IF intent.type \in {"SEND_MONEY", "POCHI"}
    THEN IF resolvePhoneOrName(contacts, intent.phone).found THEN Resolved(intent, FALSE)
         ELSE IF ~Test(StartsWithDigitRe,
                       StripChars(intent.phone, SpaceCh \cup {"-", "(", ")", "+"}))
           THEN Failed(UnknownPhoneMsg(intent.phone))
         ELSE Resolved(intent, FALSE)
  ELSE IF intent.type = "NAMED_PAYMENT" THEN ResolveNamed(intent, contacts)
  ELSE Resolved(intent, FALSE)

\* mutant: every target the directory does not resolve ends in error
M_ResolveTranscriptStrict(raw, contacts) ==
  LET intent == Parsed(raw) IN
  IF intent = NoIntent THEN Failed(ParseFailMsg)
  ELSE IF intent.type \in {"SEND_MONEY", "POCHI"}
    THEN LET resolved == resolvePhoneOrName(contacts, intent.phone) IN
         IF resolved.found THEN Resolved([intent EXCEPT !.phone = resolved.phone], FALSE)
         ELSE Failed(UnknownPhoneMsg(intent.phone))
  ELSE IF intent.type = "NAMED_PAYMENT" THEN ResolveNamed(intent, contacts)
  ELSE Resolved(intent, FALSE)

\* mutant: a till number is looked up in the directory
M_ResolveTranscriptLooksUpTill(raw, contacts) ==
  LET intent == Parsed(raw) IN
  IF intent = NoIntent THEN Failed(ParseFailMsg)
  ELSE IF intent.type \in {"SEND_MONEY", "POCHI"}
    THEN LET resolved == resolvePhoneOrName(contacts, intent.phone) IN
         IF resolved.found THEN Resolved([intent EXCEPT !.phone = resolved.phone], FALSE)
         ELSE IF ~Test(StartsWithDigitRe,
                       StripChars(intent.phone, SpaceCh \cup {"-", "(", ")", "+"}))
           THEN Failed(UnknownPhoneMsg(intent.phone))
         ELSE Resolved(intent, FALSE)
  ELSE IF intent.type = "NAMED_PAYMENT" THEN ResolveNamed(intent, contacts)
  ELSE IF intent.type = "TILL" /\ \A i \in 1..Len(contacts) : contacts[i].phone # intent.till
    THEN Failed(UnknownContactMsg(intent.till))
  ELSE Resolved(intent, FALSE)

\* start() from the parse to the intent it reads back, or the error it sets
ResolveTranscript(raw, contacts) ==
  LET intent == Parsed(raw) IN
  IF intent = NoIntent THEN Failed(ParseFailMsg)
  ELSE IF intent.type \in {"SEND_MONEY", "POCHI"}
    THEN LET resolved == resolvePhoneOrName(contacts, intent.phone) IN
         IF resolved.found THEN Resolved([intent EXCEPT !.phone = resolved.phone], FALSE)
         ELSE IF ~Test(StartsWithDigitRe,
                       StripChars(intent.phone, SpaceCh \cup {"-", "(", ")", "+"}))
           THEN Failed(UnknownPhoneMsg(intent.phone))
         ELSE Resolved(intent, FALSE)
  ELSE IF intent.type = "NAMED_PAYMENT" THEN ResolveNamed(intent, contacts)
  ELSE Resolved(intent, FALSE)

Init ==
  /\ state = "idle"
  /\ transcript = ""
  /\ pendingIntent = NoIntent
  /\ errorMessage = ""
  /\ pendingIntentRef = NoIntent
  /\ transcriptRef = ""
  /\ isSupported \in BOOLEAN
  /\ runs = <<>>
  /\ cache \in Directories
  /\ persisted = cache
  /\ persisting = <<>>
  /\ Loaded
  /\ effects = <<>>
  /\ last = Step("mount", 0, "", 0)
  /\ setStates = <<>>
  /\ vocabulary \in DOMAIN Vocabularies
  /\ pendingOwner = 0
  /\ prefs = FreshPrefs
  /\ services = <<>>

\* mutant: start() leaves the pending intent and the error message in place
M_StartKeepsPending ==
  /\ Len(runs) < MaxStarts
  /\ last' = Step("start", Len(runs) + 1, "", 0)
  /\ IF ~isSupported
     THEN /\ SetError(UnsupportedMsg)
          /\ setStates' = <<"error">>
          /\ effects' = <<Speak(UnsupportedMsg)>>
          /\ runs' = Append(runs, FinishedRun)
          /\ UNCHANGED <<transcript, pendingIntent, pendingIntentRef, transcriptRef, pendingOwner>>
     ELSE /\ state' = "listening"
          /\ setStates' = <<"listening">>
          /\ transcript' = ""
          /\ transcriptRef' = ""
          /\ effects' = <<CancelSpeech, ListenOnce>>
          /\ runs' = Append(runs, FreshRun)
          /\ UNCHANGED <<pendingIntent, pendingIntentRef, errorMessage, pendingOwner>>
  /\ UNCHANGED <<isSupported, vocabulary, receiverVars, cache, persisted, callVars, loadVars>>

\* start() up to its first await
Start ==
  /\ Len(runs) < MaxStarts
  /\ last' = Step("start", Len(runs) + 1, "", 0)
  /\ IF ~isSupported
     THEN /\ SetError(UnsupportedMsg)
          /\ setStates' = <<"error">>
          /\ effects' = <<Speak(UnsupportedMsg)>>
          /\ runs' = Append(runs, FinishedRun)
          /\ UNCHANGED <<transcript, pendingIntent, pendingIntentRef, transcriptRef, pendingOwner>>
     ELSE /\ state' = "listening"
          /\ setStates' = <<"listening">>
          /\ transcript' = ""
          /\ pendingIntent' = NoIntent
          /\ pendingIntentRef' = NoIntent
          /\ transcriptRef' = ""
          /\ errorMessage' = ""
          /\ effects' = <<CancelSpeech, ListenOnce>>
          /\ runs' = Append([r \in 1..Len(runs) |->
                               IF r = pendingOwner /\ runs[r].pc # "done"
                               THEN [runs[r] EXCEPT !.abandoned = TRUE] ELSE runs[r]],
                            FreshRun)
          /\ pendingOwner' = 0
  /\ UNCHANGED <<isSupported, vocabulary, receiverVars, cache, persisted, callVars, loadVars>>

\* the main capture of activation r rejects
CaptureFail(r, err) ==
  /\ runs[r].pc = "listen_main"
  /\ last' = Step("captureFail", r, err, 0)
  /\ setStates' = <<"error">>
  /\ LET msg == IF err # NotAnError THEN err ELSE DefaultCaptureMsg IN
     /\ SetError(msg)
     /\ effects' = <<Speak(msg)>>
  /\ runs' = [runs EXCEPT ![r] = FinishedRun]
  /\ UNCHANGED <<transcript, pendingIntent, pendingIntentRef, transcriptRef, pendingOwner,
                 isSupported, vocabulary, receiverVars, cache, persisted, callVars, loadVars>>

\* the main capture of activation r resolves with raw: start() runs on to
\* the readback it awaits, or to the error it returns on
CaptureDone(r, raw) ==
  /\ runs[r].pc = "listen_main"
  /\ last' = Step("capture", r, raw, 0)
  /\ transcript' = raw
  /\ transcriptRef' = raw
  /\ \E res \in {ResolveTranscript(raw, cache)} :
     IF ~res.ok
     THEN /\ SetError(res.error)
          /\ setStates' = <<"processing", "error">>
          /\ effects' = <<Speak(res.error)>>
          /\ runs' = [runs EXCEPT ![r] = FinishedRun]
          /\ UNCHANGED <<pendingIntent, pendingIntentRef, pendingOwner>>
     ELSE /\ pendingIntent' = res.intent
          /\ pendingIntentRef' = res.intent
          /\ state' = "confirming"
          /\ setStates' = <<"processing", "confirming">>
          /\ effects' = <<Describe(res.intent), Speak(ConfirmPrompt(describeIntent(res.intent)))>>
          /\ runs' = [runs EXCEPT ![r] = [@ EXCEPT !.pc = "speak_readback", !.raw = raw,
                                                   !.intent = res.intent, !.named = res.named]]
          /\ pendingOwner' = r
          /\ UNCHANGED errorMessage
  /\ UNCHANGED <<isSupported, vocabulary, receiverVars, cache, persisted, callVars, loadVars>>

\* mutant: a readback that cannot be spoken ends the session in error
M_ReadbackDoneFatal(r, spoken) ==
  /\ runs[r].pc = "speak_readback"
  /\ last' = Step("readback", r, IF spoken THEN "spoken" ELSE "failed", 0)
  /\ state' = IF spoken THEN "awaiting_confirmation" ELSE "error"
  /\ setStates' = <<state'>>
  /\ effects' = IF spoken THEN <<ListenOnce>> ELSE <<>>
  /\ runs' = IF spoken THEN [runs EXCEPT ![r].pc = "listen_confirm"]
             ELSE [runs EXCEPT ![r] = FinishedRun]
  /\ UNCHANGED <<transcript, pendingIntent, errorMessage, pendingIntentRef, transcriptRef,
                 pendingOwner, isSupported, vocabulary, receiverVars, cache, persisted, callVars, loadVars>>

\* the readback of activation r settles, spoken or not
ReadbackDone(r, spoken) ==
  /\ runs[r].pc = "speak_readback"
  /\ last' = Step("readback", r, IF spoken THEN "spoken" ELSE "failed", 0)
  /\ state' = "awaiting_confirmation"
  /\ setStates' = <<"awaiting_confirmation">>
  /\ effects' = <<ListenOnce>>
  /\ runs' = [runs EXCEPT ![r].pc = "listen_confirm"]
  /\ UNCHANGED <<transcript, pendingIntent, errorMessage, pendingIntentRef, transcriptRef,
                 pendingOwner, isSupported, vocabulary, receiverVars, cache, persisted, callVars, loadVars>>

\* mutant: the failed confirmation capture is handled like the main one
M_ConfirmCaptureFailAsError(r) ==
  /\ runs[r].pc = "listen_confirm"
  /\ last' = Step("confirmFail", r, "", 0)
  /\ SetError(DefaultCaptureMsg)
  /\ setStates' = <<"error">>
  /\ effects' = <<Speak(DefaultCaptureMsg)>>
  /\ runs' = [runs EXCEPT ![r] = FinishedRun]
  /\ UNCHANGED <<transcript, pendingIntent, pendingIntentRef, transcriptRef,
                 pendingOwner, isSupported, vocabulary, receiverVars, cache, persisted, callVars, loadVars>>

\* the confirmation capture of activation r rejects
ConfirmCaptureFail(r) ==
  /\ runs[r].pc = "listen_confirm"
  /\ last' = Step("confirmFail", r, "", 0)
  /\ state' = "confirming"
  /\ setStates' = <<"confirming">>
  /\ effects' = <<Speak(RetryPrompt)>>
  /\ runs' = [runs EXCEPT ![r] = FinishedRun]
  /\ UNCHANGED <<transcript, pendingIntent, errorMessage, pendingIntentRef, transcriptRef,
                 pendingOwner, isSupported, vocabulary, receiverVars, cache, persisted, callVars, loadVars>>

\* the confirmation capture of activation r resolves with response
ConfirmReply(r, response) ==
  /\ runs[r].pc = "listen_confirm"
  /\ last' = Step("reply", r, response, IF ConfirmTestOf[runs[r].named, response] THEN 1 ELSE 0)
  /\ setStates' = <<"idle">>
  /\ IF ConfirmTestOf[runs[r].named, response]
     THEN /\ ExecuteConfirm(runs[r].intent, runs[r].raw, <<>>)
          /\ runs' = [runs EXCEPT ![r] = FinishedRun]
     ELSE /\ Reset
          /\ effects' = <<Speak(CancelledByVoiceMsg), Dismiss>>
          /\ pendingOwner' = 0
          /\ runs' = [runs EXCEPT ![r] = FinishedRun]
          /\ UNCHANGED callVars
  /\ UNCHANGED <<isSupported, vocabulary, receiverVars, cache, persisted, loadVars>>

\* mutant: the tap executes without the transcript
M_ConfirmWithoutTranscript ==
  /\ last' = Step("confirm", pendingOwner, "", IF pendingIntentRef = NoIntent THEN 0 ELSE 1)
  /\ IF pendingIntentRef = NoIntent
     THEN /\ effects' = <<>>
          /\ setStates' = <<>>
          /\ UNCHANGED <<hookVars, callVars, pendingOwner, runs>>
     ELSE /\ ExecuteConfirm(pendingIntentRef, "", <<CancelSpeech>>)
          /\ setStates' = <<"idle">>
          /\ runs' = [runs EXCEPT ![pendingOwner].submits =
                                    IF runs[pendingOwner].pc = "done" THEN @ ELSE @ + 1]
  /\ UNCHANGED <<isSupported, vocabulary, receiverVars, cache, persisted, loadVars>>

\* confirm(): the tap fallback
Confirm ==
  /\ last' = Step("confirm", pendingOwner, "", IF pendingIntentRef = NoIntent THEN 0 ELSE 1)
  /\ IF pendingIntentRef = NoIntent
     THEN /\ effects' = <<>>
          /\ setStates' = <<>>
          /\ UNCHANGED <<hookVars, callVars, pendingOwner, runs>>
     ELSE /\ ExecuteConfirm(pendingIntentRef, transcriptRef, <<CancelSpeech>>)
          /\ setStates' = <<"idle">>
          /\ runs' = [runs EXCEPT ![pendingOwner].submits =
                                    IF runs[pendingOwner].pc = "done" THEN @ ELSE @ + 1]
  /\ UNCHANGED <<isSupported, vocabulary, receiverVars, cache, persisted, loadVars>>

\* mutant: cancel() does not tell the caller
M_CancelWithoutDismiss ==
  /\ last' = Step("cancel", 0, "", 0)
  /\ setStates' = <<"idle">>
  /\ effects' = <<CancelSpeech, Speak(CancelledMsg)>>
  /\ Reset
  /\ pendingOwner' = 0
  /\ runs' = [r \in 1..Len(runs) |->
                IF runs[r].pc # "done" THEN [runs[r] EXCEPT !.cancelled = TRUE] ELSE runs[r]]
  /\ UNCHANGED <<isSupported, vocabulary, receiverVars, cache, persisted, callVars, loadVars>>

\* cancel()
Cancel ==
  /\ last' = Step("cancel", 0, "", 0)
  /\ setStates' = <<"idle">>
  /\ effects' = <<CancelSpeech, Speak(CancelledMsg), Dismiss>>
  /\ Reset
  /\ pendingOwner' = 0
  /\ runs' = [r \in 1..Len(runs) |->
                IF runs[r].pc # "done" THEN [runs[r] EXCEPT !.cancelled = TRUE] ELSE runs[r]]
  /\ UNCHANGED <<isSupported, vocabulary, receiverVars, cache, persisted, callVars, loadVars>>

\* persistContacts resumes after the encryption, or the encryption rejects
\* and the caller's catch drops the error
PersistDone(i, ok) ==
  /\ i \in 1..Len(persisting)
  /\ last' = Step("persist", 0, IF ok THEN "stored" ELSE "failed", 0)
  /\ setStates' = <<>>
  /\ effects' = <<>>
  /\ persisting' = SubSeq(persisting, 1, i - 1) \o SubSeq(persisting, i + 1, Len(persisting))
  /\ persistMeta' = SubSeq(persistMeta, 1, i - 1) \o SubSeq(persistMeta, i + 1, Len(persistMeta))
  /\ IF ok
     THEN /\ storage' = [raw |-> "blob", readable |-> persistMeta[i].current,
                          passphrase |-> storage.passphrase]
          /\ persisted' = persisting[i]
          /\ session' = InSession(persisting[i])
          /\ cache' = persisting[i]
          /\ initialised' = TRUE
     ELSE IF persistMeta[i].fromInit
     THEN /\ cache' = <<>>
          /\ initialised' = TRUE
          /\ UNCHANGED <<storage, persisted, session>>
     ELSE UNCHANGED <<storage, persisted, session, cache, initialised>>
  /\ UNCHANGED <<hookVars, isSupported, vocabulary, receiverVars, runs, pendingOwner, decrypting>>

Next ==
  \/ Start
  \/ \E r \in 1..Len(runs), err \in CaptureErrors : CaptureFail(r, err)
  \/ \E r \in 1..Len(runs), raw \in Vocabularies[vocabulary] : CaptureDone(r, raw)
  \/ \E r \in 1..Len(runs), spoken \in BOOLEAN : ReadbackDone(r, spoken)
  \/ \E r \in 1..Len(runs) : ConfirmCaptureFail(r)
  \/ \E r \in 1..Len(runs), response \in Responses : ConfirmReply(r, response)
  \/ Confirm
  \/ Cancel
  \/ \E i \in 1..Len(persisting), ok \in BOOLEAN : PersistDone(i, ok)

Spec == Init /\ [][Next]_vars

\* ------------------------------------------------------------------------
\* Properties
\* ------------------------------------------------------------------------
CompletionOps == {"captureFail", "capture", "readback", "confirmFail", "reply"}

AffirmativeWords ==
  {"yes", "yeah", "yep", "yup", "confirm", "send", "do it", "go", "ok", "okay"}

\* the utterance, trimmed and compared without case, begins with one of the words
BeginsWithAffirmative(utterance) ==
  \E w \in AffirmativeWords : startsWith(toLowerCase(trim(utterance)), w)

SubmittedIntents == {effects[i].intent : i \in Calls("onVoiceSubmit")}

\* C1: onVoiceSubmit is called at most once with the intent of one session,
\* whatever the interleaving of start, tap-confirm, cancel and completions.
C1_SubmitAtMostOncePerSession == last.submits <= 1

\* C2: cancel() leaves idle with no transcript and no pending intent; the
\* state then stays idle until the next start(), and the intent of a session
\* that was cancelled is never submitted, whatever completes afterwards.
C2_CancelDiscardsSession ==
  /\ last.op = "cancel" =>
       /\ state = "idle"
       /\ transcript = "" /\ transcriptRef = ""
       /\ pendingIntent = NoIntent /\ pendingIntentRef = NoIntent
  /\ last.cancelled => Calls("onVoiceSubmit") = {}
  /\ (last.cancelled /\ last.run = Len(runs)) => state = "idle"

C4_AffirmativeExactly ==
  last.op = "reply" =>
    /\ BeginsWithAffirmative(last.input) <=> Calls("onVoiceSubmit") # {}
    /\ ~BeginsWithAffirmative(last.input) =>
         /\ state = "idle"
         /\ pendingIntent = NoIntent /\ pendingIntentRef = NoIntent
         /\ effects = <<Speak(CancelledByVoiceMsg), Dismiss>>

C4_Witness ==
  /\ last.op = "reply"
  /\ last.input = "not yes"
  /\ state = "idle"
  /\ pendingIntentRef = NoIntent
  /\ Calls("onVoiceSubmit") = {}

\* C5: the pending intent is absent or one of the five concrete variants,
\* and NAMED_PAYMENT is never described for the readback nor submitted.
C5_NamedPaymentNeverPending ==
  /\ pendingIntent.type \in ConcreteTypes \cup {NoIntent.type}
  /\ pendingIntentRef.type \in ConcreteTypes \cup {NoIntent.type}
  /\ \A i \in Calls("describeIntent") : effects[i].intent.type \in ConcreteTypes
  /\ \A intent \in SubmittedIntents : intent.type \in ConcreteTypes

C5_Witness ==
  /\ last.op = "capture"
  /\ Parsed(last.input).type = "NAMED_PAYMENT"
  /\ state = "confirming"
  /\ pendingIntentRef.type = "TILL"
  /\ Calls("describeIntent") # {}

\* the transcript names a contact that resolves to a paybill contact without
\* an account number
PaybillWithoutAccount(raw) ==
  LET intent  == Parsed(raw)
      contact == resolveContact(cache, intent.contactName)
  IN  /\ intent.type = "NAMED_PAYMENT"
      /\ contact # NoContact
      /\ contact.type = "paybill"
      /\ contact.accountNumber = Absent

\* C6: a NAMED_PAYMENT that resolves to a paybill contact without an account
\* number ends its session in error with the corrective message: the session
\* sets no pending intent, does not enter confirming, describes and submits
\* nothing, and is over; what is pending afterwards, if anything, was set by
\* another session, so that no tap can submit for this one.
C6_PaybillWithoutAccountErrors ==
  (last.op = "capture" /\ PaybillWithoutAccount(last.input)) =>
    /\ state = "error"
    /\ errorMessage =
         NeedsAccountMsg(resolveContact(cache, Parsed(last.input).contactName),
                         Parsed(last.input).amount)
    /\ effects = <<Speak(errorMessage)>>
    /\ pendingOwner # last.run
    /\ runs[last.run].pc = "done"
    /\ pendingOwner = 0 => pendingIntent = NoIntent /\ pendingIntentRef = NoIntent

C6_Witness ==
  /\ last.op = "capture"
  /\ PaybillWithoutAccount(last.input)
  /\ state = "error"
  /\ pendingIntentRef = NoIntent

\* C7: a session that reached awaiting_confirmation and was ended by a
\* non-affirmative utterance or by cancel() saves no contact, also when the
\* capture it left outstanding completes.
C7_NoSaveWithoutExecution ==
  /\ (last.op = "reply" /\ ~BeginsWithAffirmative(last.input)) =>
       Calls("saveVoiceContact") = {}
  /\ last.cancelled => Calls("saveVoiceContact") = {}

\* C8: an intent that was pending when a later start() cleared the pending
\* state is never submitted.
C8_AbandonedIntentNeverSubmitted ==
  last.abandoned => Calls("onVoiceSubmit") = {}

\* C9: once a newer start() has begun, the completions of an older session's
\* capture and speak operations write none of the lifecycle state, the
\* transcript, the pending intent and the error message.
C9_OlderSessionWritesNothing ==
  [][(last'.op \in CompletionOps /\ last'.run < Len(runs')) => UNCHANGED hookVars]_vars

\* C10: a failed confirmation capture returns to confirming and speaks the
\* retry prompt, calls neither callback, and leaves the pending intent and
\* the transcript as they are; the tap-confirm that follows submits exactly
\* the pending intent that was kept.
C10_ConfirmationCaptureFailureRecovers ==
  [][/\ last'.op = "confirmFail" =>
          /\ state' = "confirming"
          /\ effects' = <<Speak(RetryPrompt)>>
          /\ UNCHANGED <<pendingIntent, pendingIntentRef, transcript, transcriptRef,
                         errorMessage>>
     /\ (last.op = "confirmFail" /\ last'.op = "confirm" /\ pendingIntentRef # NoIntent) =>
          /\ SubmittedIntents' = {pendingIntentRef}
          /\ state' = "idle"
    ]_vars

C10_Witness ==
  /\ last.op = "confirmFail"
  /\ state = "confirming"
  /\ pendingIntentRef = ResolveTranscript(transcriptRef, cache).intent
  /\ pendingIntentRef # NoIntent
  /\ transcriptRef \in Transcripts
  /\ effects = <<Speak(RetryPrompt)>>

SavedContacts == {effects[i].contact : i \in Calls("saveVoiceContact")}

\* C11: confirm() with a pending intent held submits exactly that intent,
\* once and in the same step (no capture is started or awaited), decides the
\* auto-save from the last transcript, clears the pending intent and the
\* transcript and sets the state to idle; with no pending intent held it
\* makes no call and changes no state.
C11_TapConfirmExecutesPending ==
  [][last'.op = "confirm" =>
       IF pendingIntentRef # NoIntent
       THEN /\ SubmittedIntents' = {pendingIntentRef}
            /\ Cardinality(Calls("onVoiceSubmit")') = 1
            /\ Calls("listenOnce")' = {}
            /\ SavedContacts' = {AutoSaveContact(pendingIntentRef, transcriptRef)} \ {NoContact}
            /\ state' = "idle"
            /\ pendingIntent' = NoIntent /\ pendingIntentRef' = NoIntent
            /\ transcript' = "" /\ transcriptRef' = ""
       ELSE /\ effects' = <<>>
            /\ UNCHANGED <<hookVars, cache, persisted, persisting>>
    ]_vars

C11_Witness ==
  /\ last.op = "confirm"
  /\ Cardinality(Calls("onVoiceSubmit")) = 1
  /\ SavedContacts # {}
  /\ state = "idle"
  /\ pendingIntentRef = NoIntent
  /\ transcriptRef = ""

LifecycleStates ==
  {"idle", "listening", "processing", "confirming", "awaiting_confirmation", "error"}

\* the changes of the lifecycle state a step of each kind may make
LifecycleEdges(op) ==
  CASE op = "start" ->
         {<<from, "listening">> : from \in LifecycleStates} \cup {<<"idle", "error">>}
    [] op = "captureFail" -> {<<"listening", "error">>}
    [] op = "capture" ->
         {<<"listening", "processing">>, <<"processing", "confirming">>,
          <<"processing", "error">>}
    [] op = "readback" -> {<<"confirming", "awaiting_confirmation">>}
    [] op = "confirmFail" -> {<<"awaiting_confirmation", "confirming">>}
    [] op = "reply" -> {<<"awaiting_confirmation", "idle">>}
    [] op \in {"confirm", "cancel"} -> {<<from, "idle">> : from \in LifecycleStates}
    [] OTHER -> {}

\* C12: every change of the lifecycle state follows an edge of the session
\* diagram: start() to listening (a restart from any state is let through
\* here) or, unsupported, from idle to error; a completed capture from
\* listening to processing and on to confirming or error; a failed capture
\* from listening to error; the readback from confirming to
\* awaiting_confirmation; the confirmation from awaiting_confirmation to idle
\* or, on failure, back to confirming; cancel() and tap-confirm to idle.
C12_LifecycleFollowsEdges ==
  [][\A i \in 1..Len(setStates') :
       LET from == IF i = 1 THEN state ELSE setStates'[i - 1]
           to   == setStates'[i]
       IN  from # to => <<from, to>> \in LifecycleEdges(last'.op)
    ]_vars

\* the characters of a spoken number
NumberCh == DigitCh \cup SpaceCh \cup {"+", "-", "(", ")"}

\* the transcript is a SEND_MONEY or POCHI command whose target is a name,
\* not a number, and the directory does not resolve it
UnresolvedName(raw) ==
  LET intent == Parsed(raw) IN
  /\ intent.type \in {"SEND_MONEY", "POCHI"}
  /\ \E i \in 1..Len(intent.phone) : Ch(intent.phone, i) \notin NumberCh
  /\ ~resolvePhoneOrName(cache, intent.phone).found

\* C13: a SEND_MONEY or POCHI command whose spoken target is a non-numeric
\* name that the directory does not resolve ends its session in error with
\* the add-them-first message: the session sets no pending intent, does not
\* enter confirming and submits nothing.
C13_UnresolvedNameErrors ==
  (last.op = "capture" /\ UnresolvedName(last.input)) =>
    /\ state = "error"
    /\ errorMessage = UnknownPhoneMsg(Parsed(last.input).phone)
    /\ effects = <<Speak(errorMessage)>>
    /\ "confirming" \notin {setStates[i] : i \in DOMAIN setStates}
    /\ pendingOwner # last.run
    /\ runs[last.run].pc = "done"

\* the session of the activation heard a transcript parsed as one of the
\* types and keeps an intent of that type
KeepsType(run, types) ==
  /\ run.intent.type \in types
  /\ Parsed(run.raw).type \in types

IsMobileType(contact) == contact.type \in {Absent, "mobile", "pochi"}

\* the contact among those a phone lookup may use that the name resolves to
PhoneContactFor(contacts, name) ==
  resolveContact(SelectSeq(contacts, IsMobileType), name)

\* the intent is "send <amount> [shillings] to <name>" as parsed and the
\* name resolves to the saved mobile contact
SendToMobileContact(intent, contact) ==
  /\ intent.type = "SEND_MONEY"
  /\ contact # NoContact
  /\ contact.type \in {Absent, "mobile"}
  /\ ~isPhoneNumber(trim(intent.phone))

\* C14: when the main capture hears "send <amount> [shillings] to <name>" and
\* the name resolves to a saved mobile contact, the intent set pending and
\* kept by the session is SEND_MONEY with the spoken amount and the
\* contact's stored phone, and the readback names that phone; the readback
\* of such a session leads to awaiting_confirmation; and an affirmative
\* utterance submits exactly the intent the session kept.
C14_SendToSavedContact ==
  [][/\ last'.op = "capture" =>
          LET intent   == Parsed(last'.input)
              contact  == PhoneContactFor(cache, intent.phone)
              expected == [type |-> "SEND_MONEY", amount |-> intent.amount,
                           phone |-> contact.phone]
          IN  SendToMobileContact(intent, contact) =>
                /\ pendingIntent' = expected /\ pendingIntentRef' = expected
                /\ runs'[last'.run].intent = expected
                /\ state' = "confirming"
                /\ effects' =
                     <<Describe(expected),
                       Speak(ConfirmPrompt("Send " \o expected.amount \o " shillings to "
                                             \o expected.phone \o "."))>>
     /\ (last'.op = "readback" /\ KeepsType(runs[last'.run], {"SEND_MONEY"})) =>
          /\ state' = "awaiting_confirmation"
          /\ effects' = <<ListenOnce>>
          /\ runs'[last'.run].intent = runs[last'.run].intent
     /\ (last'.op = "reply" /\ KeepsType(runs[last'.run], {"SEND_MONEY"})
           /\ BeginsWithAffirmative(last'.input)) =>
          SubmittedIntents' = {runs[last'.run].intent}
    ]_vars

C14_Witness ==
  /\ last.op = "reply"
  /\ last.input = " Yes please"
  /\ SubmittedIntents = {[type |-> "SEND_MONEY", amount |-> "500", phone |-> "0712345678"]}
  /\ SavedContacts = {[name |-> "Dav", type |-> Absent, phone |-> "0712345678",
                       accountNumber |-> Absent]}

DirectTypes == {"PAYBILL", "TILL", "WITHDRAW"}

\* C15: for a transcript parsed as PAYBILL, TILL or WITHDRAW every step of
\* the session is a function of what was heard alone, so that two runs that
\* differ only in the directory go through the same states, read back the
\* same phrase and submit the same intent: the capture goes through
\* processing to confirming with the parsed intent pending and read back,
\* the readback leads to awaiting_confirmation, an affirmative utterance
\* submits the parsed intent field for field, and no step saves a contact
\* or changes the directory.
C15_DirectIntentsBypassDirectory ==
  [][/\ last'.op = "capture" =>
          LET parsed == Parsed(last'.input) IN
          parsed.type \in DirectTypes =>
            /\ setStates' = <<"processing", "confirming">>
            /\ pendingIntent' = parsed /\ pendingIntentRef' = parsed
            /\ runs'[last'.run].intent = parsed
            /\ effects' = <<Describe(parsed), Speak(ConfirmPrompt(describeIntent(parsed)))>>
            /\ UNCHANGED <<cache, persisted, persisting>>
     /\ (last'.op = "readback" /\ runs[last'.run].intent.type \in DirectTypes) =>
          LET parsed == Parsed(runs[last'.run].raw) IN
          parsed.type \in DirectTypes =>
            /\ setStates' = <<"awaiting_confirmation">>
            /\ effects' = <<ListenOnce>>
            /\ runs[last'.run].intent = parsed
            /\ runs'[last'.run].intent = parsed
            /\ UNCHANGED <<cache, persisted, persisting>>
     /\ (last'.op = "reply" /\ runs[last'.run].intent.type \in DirectTypes) =>
          LET parsed == Parsed(runs[last'.run].raw) IN
          parsed.type \in DirectTypes =>
            /\ setStates' = <<"idle">>
            /\ SubmittedIntents' = IF BeginsWithAffirmative(last'.input) THEN {parsed} ELSE {}
            /\ SavedContacts' = {}
            /\ UNCHANGED <<cache, persisted, persisting>>
    ]_vars

C15_Witness ==
  /\ last.op = "reply"
  /\ SubmittedIntents = {[type |-> "PAYBILL", amount |-> "500", business |-> "247247",
                           account |-> "1234"]}
  /\ cache = <<>>

\* the concrete intent a named payment of the amount to the contact becomes
RewrittenFor(contact, amount) ==
  CASE contact.type = "till" ->
         [type |-> "TILL", amount |-> amount, till |-> contact.phone]
    [] contact.type = "paybill" ->
         [type |-> "PAYBILL", amount |-> amount, business |-> contact.phone,
          account |-> contact.accountNumber]
    [] contact.type = "pochi" ->
         [type |-> "POCHI", amount |-> amount, phone |-> contact.phone]
    [] contact.type \in {"mobile", Absent} ->
         [type |-> "SEND_MONEY", amount |-> amount, phone |-> contact.phone]

\* C16: when the main capture hears a NAMED_PAYMENT, either the name
\* resolves to no contact and the session ends in error with nothing set
\* pending, or (a paybill contact without an account number aside) the
\* intent set pending and kept by the session is the rewrite by the
\* contact's type: TILL, PAYBILL with the contact's account, POCHI, or
\* SEND_MONEY for a mobile or untyped contact, with the parsed amount.
C16_NamedPaymentRewrittenByType ==
  last.op = "capture" =>
    LET parsed  == Parsed(last.input)
        contact == resolveContact(cache, parsed.contactName)
    IN  parsed.type = "NAMED_PAYMENT" =>
          IF contact = NoContact
          THEN /\ state = "error"
               /\ errorMessage = UnknownContactMsg(parsed.contactName)
               /\ setStates = <<"processing", "error">>
               /\ pendingOwner # last.run
               /\ runs[last.run].pc = "done"
               /\ pendingOwner = 0 => pendingIntent = NoIntent /\ pendingIntentRef = NoIntent
          ELSE (contact.type = "paybill" => contact.accountNumber # Absent) =>
               /\ pendingIntent = RewrittenFor(contact, parsed.amount)
               /\ pendingIntentRef = RewrittenFor(contact, parsed.amount)
               /\ runs[last.run].intent = RewrittenFor(contact, parsed.amount)
               /\ setStates = <<"processing", "confirming">>
               /\ pendingOwner = last.run

C16_Witness ==
  /\ last.op = "capture"
  /\ last.input = "pay mama 50"
  /\ pendingIntentRef = [type |-> "POCHI", amount |-> "50", phone |-> "0700111222"]
  /\ state = "confirming"

\* ------------------------------------------------------------------------
\* Contact directory on its own: save, delete, clear and the two resolvers
\* called in any order on the module's _cache. The hook's variables keep
\* their initial values; effects holds the value the latest call returned.
\* ------------------------------------------------------------------------
\* the longest directory a save may extend, and the persistContacts calls
\* that may be suspended at one time
MaxContacts == 3
MaxInFlight == 1

\* the contacts handed to saveVoiceContact
ContactPool ==
  { [name |-> "Mary Naivas", type |-> "mobile",  phone |-> "+254 712 345 678", accountNumber |-> Absent],
    [name |-> "Mary",        type |-> "pochi",   phone |-> "0700-111-222",     accountNumber |-> Absent],
    [name |-> "Naivas",      type |-> "till",    phone |-> "522 533",          accountNumber |-> Absent],
    [name |-> "naivas",      type |-> Absent,    phone |-> "0733000111",       accountNumber |-> Absent],
    [name |-> "Zuku",        type |-> "paybill", phone |-> "320320",           accountNumber |-> " 4455 "],
    [name |-> "0700111222",  type |-> "mobile",  phone |-> "0799000999",       accountNumber |-> Absent] }

\* the names handed to deleteVoiceContact
DeleteNames == { "mary", "NAIVAS", "Zuku" }

\* the queries handed to the resolvers
Queries ==
  { "mary", " Mary N", "naivas", "nai mar", "zu", "oti", "nobody",
    "0700111222", "+254 712-345-678", "  12345" }

\* a directory stored by an earlier version: its contact has no type
LegacyDirectory ==
  << [name |-> "Otieno", type |-> Absent, phone |-> "0733000111", accountNumber |-> Absent] >>

Return(value) == [call |-> "return", value |-> value]

\* the list deleteVoiceContact hands to persistContacts
DeletedList(contacts, name) ==
  SelectSeq(contacts, LAMBDA c : toLowerCase(c.name) # toLowerCase(name))

InitDir ==
  /\ state = "idle"
  /\ transcript = ""
  /\ pendingIntent = NoIntent
  /\ errorMessage = ""
  /\ pendingIntentRef = NoIntent
  /\ transcriptRef = ""
  /\ isSupported = TRUE
  /\ runs = <<>>
  /\ cache \in {<<>>, LegacyDirectory}
  /\ persisted = cache
  /\ persisting = <<>>
  /\ Loaded
  /\ effects = <<>>
  /\ last = Step("mount", 0, "", 0)
  /\ setStates = <<>>
  /\ vocabulary = 1
  /\ pendingOwner = 0
  /\ prefs = FreshPrefs
  /\ services = <<>>

sessionVars == <<hookVars, isSupported, runs, setStates, vocabulary, pendingOwner, receiverVars>>

\* mutant: a save extends the list of the call suspended before it
M_SaveVoiceContactQueued(contact) ==
  LET contacts == IF persisting = <<>> THEN getVoiceContacts ELSE persisting[Len(persisting)] IN
  /\ Len(SavedList(contacts, contact)) <= MaxContacts
  /\ last' = Step("saveVoiceContact", 0, contact.name, 0)
  /\ effects' = <<SaveCall(contact)>>
  /\ GetVoiceContacts
  /\ PersistContacts(SavedList(contacts, contact), FALSE)
  /\ UNCHANGED <<persisted, session, decrypting, sessionVars>>

\* saveVoiceContact(contact) up to the await in persistContacts
SaveVoiceContact(contact) ==
  /\ Len(SavedList(getVoiceContacts, contact)) <= MaxContacts
  /\ last' = Step("saveVoiceContact", 0, contact.name, 0)
  /\ effects' = <<SaveCall(contact)>>
  /\ GetVoiceContacts
  /\ PersistContacts(SavedList(getVoiceContacts, contact), FALSE)
  /\ UNCHANGED <<persisted, session, decrypting, sessionVars>>

\* deleteVoiceContact(name) up to the await in persistContacts
DeleteVoiceContact(name) ==
  /\ last' = Step("deleteVoiceContact", 0, name, 0)
  /\ effects' = <<>>
  /\ GetVoiceContacts
  /\ PersistContacts(DeletedList(getVoiceContacts, name), FALSE)
  /\ UNCHANGED <<persisted, session, decrypting, sessionVars>>

\* clearVoiceContacts()
ClearVoiceContacts ==
  /\ last' = Step("clearVoiceContacts", 0, "", 0)
  /\ effects' = <<>>
  /\ storage' = NoStorage
  /\ persisted' = <<>>
  /\ session' = NoSession
  /\ cache' = <<>>
  /\ initialised' = TRUE
  /\ persistMeta' = [i \in 1..Len(persistMeta) |-> [persistMeta[i] EXCEPT !.current = FALSE]]
  /\ UNCHANGED <<persisting, decrypting, sessionVars>>

\* a call of resolvePhoneOrName(query)
ResolvePhoneOrName(query) ==
  /\ last' = Step("resolvePhoneOrName", 0, query, 0)
  /\ effects' = <<Return(resolvePhoneOrName(getVoiceContacts, query))>>
  /\ GetVoiceContacts
  /\ UNCHANGED <<persisted, callVars, session, decrypting, sessionVars>>

\* a call of resolveContact(query)
ResolveContact(query) ==
  /\ last' = Step("resolveContact", 0, query, 0)
  /\ effects' = <<Return(resolveContact(getVoiceContacts, query))>>
  /\ GetVoiceContacts
  /\ UNCHANGED <<persisted, callVars, session, decrypting, sessionVars>>

\* a save or a delete is called while fewer than MaxInFlight are suspended
NextDir ==
  \/ \E contact \in ContactPool : Len(persisting) < MaxInFlight /\ SaveVoiceContact(contact)
  \/ \E name \in DeleteNames : Len(persisting) < MaxInFlight /\ DeleteVoiceContact(name)
  \/ ClearVoiceContacts
  \/ \E i \in 1..Len(persisting), ok \in BOOLEAN : PersistDone(i, ok)
  \/ \E query \in Queries : ResolvePhoneOrName(query)
  \/ \E query \in Queries : ResolveContact(query)

SpecDir == InitDir /\ [][NextDir]_vars

\* 7 to 15 characters drawn from digits, +, space, -, ( and )
PhoneShaped(query) ==
  /\ Len(query) \in 7..15
  /\ \A i \in 1..Len(query) : Ch(query, i) \in NumberCh

Returned == effects[1].value

\* C17: for a query that (trimmed, see C19) is not phone-shaped,
\* resolvePhoneOrName returns none or the stored phone of a contact of type
\* mobile, pochi or of no type, and never the number of a till or paybill
\* contact, whatever the names in the directory.
C17_PhoneLookupSkipsTillAndPaybill ==
  (last.op = "resolvePhoneOrName" /\ ~PhoneShaped(trim(last.input))) =>
    \/ Returned = NoPhone
    \/ /\ Returned.found
       /\ \E i \in 1..Len(cache) : IsMobileType(cache[i]) /\ cache[i].phone = Returned.phone
       /\ \A i \in 1..Len(cache) : cache[i].type \in {"till", "paybill"} =>
                                      cache[i].phone # Returned.phone

\* the till contact's name is the query; a mobile contact matches by a word
C17_Witness ==
  /\ last.op = "resolvePhoneOrName"
  /\ last.input = "naivas"
  /\ \E i \in 1..Len(cache) : cache[i].type = "till" /\ toLowerCase(cache[i].name) = "naivas"
  /\ Returned = [found |-> TRUE, phone |-> "0712345678"]

Words(text) == {splitWords(text)[i] : i \in 1..Len(splitWords(text))}

\* the candidates that match the query at each stage
ExactMatches(candidates, q) ==
  {i \in 1..Len(candidates) : toLowerCase(candidates[i].name) = q}
PrefixMatches(candidates, q) ==
  {i \in 1..Len(candidates) : startsWith(toLowerCase(candidates[i].name), q)}
OverlapMatches(candidates, q) ==
  {i \in 1..Len(candidates) :
     \A w \in Words(q) : \E nw \in Words(toLowerCase(candidates[i].name)) : startsWith(nw, w)}

Earliest(positions) == CHOOSE i \in positions : \A j \in positions : i <= j

\* the candidate the stages select in their order of precedence
SelectedContact(candidates, q) ==
  IF ExactMatches(candidates, q) # {}
    THEN candidates[Earliest(ExactMatches(candidates, q))]
  ELSE IF PrefixMatches(candidates, q) # {}
    THEN candidates[Earliest(PrefixMatches(candidates, q))]
  ELSE IF OverlapMatches(candidates, q) # {}
    THEN candidates[Earliest(OverlapMatches(candidates, q))]
  ELSE NoContact

C19_PhoneShapedQueryReturned ==
  (last.op = "resolvePhoneOrName" /\ PhoneShaped(last.input)) =>
    Returned = [found |-> TRUE, phone |-> normalizePhone(last.input)]

\* C19, amended: a query that is phone-shaped once trimmed is returned
\* normalized, whatever the directory holds, also when a contact's name
\* equals the query.
C19_TrimmedPhoneShapedQueryReturned ==
  (last.op = "resolvePhoneOrName" /\ PhoneShaped(trim(last.input))) =>
    Returned = [found |-> TRUE, phone |-> normalizePhone(trim(last.input))]

\* a contact is named like the query and its phone is not returned
C19_Witness ==
  /\ last.op = "resolvePhoneOrName"
  /\ last.input = "0700111222"
  /\ \E i \in 1..Len(cache) : cache[i].name = "0700111222" /\ cache[i].phone = "0799000999"
  /\ Returned = [found |-> TRUE, phone |-> "0700111222"]

\* no two contacts of the list have names that are equal ignoring case
UniqueNames(contacts) ==
  \A i, j \in 1..Len(contacts) :
    toLowerCase(contacts[i].name) = toLowerCase(contacts[j].name) => i = j

\* C20: the directory, the stored collection and every list on its way to
\* the store hold no two contacts with names equal ignoring case; and a save
\* that completes with no other call suspended or in between replaces the
\* entry of that name
\* in place, leaving the size and the other entries as they were, or, when
\* the name is new, appends one entry.
C20_SaveUpsertsByName ==
  /\ [](/\ UniqueNames(cache) /\ UniqueNames(persisted)
        /\ \A k \in 1..Len(persisting) : UniqueNames(persisting[k]))
  /\ [][(last.op = "saveVoiceContact" /\ Len(persisting) = 1
            /\ last'.op = "persist" /\ last'.input = "stored") =>
          LET contact == effects[1].contact
              hits    == {i \in 1..Len(cache) :
                            toLowerCase(cache[i].name) = toLowerCase(contact.name)}
          IN  /\ persisted' = cache'
              /\ IF hits # {}
                 THEN /\ Len(cache') = Len(cache)
                      /\ \A i \in 1..Len(cache) :
                           IF i \in hits THEN cache'[i].name = contact.name
                                        ELSE cache'[i] = cache[i]
                 ELSE /\ Len(cache') = Len(cache) + 1
                      /\ SubSeq(cache', 1, Len(cache)) = cache
                      /\ cache'[Len(cache')].name = contact.name
       ]_vars

\* a save of "naivas" finds "Naivas" first in a longer directory and hands
\* on a list of the same length with its entry in the first place
C20_Witness ==
  /\ last.op = "saveVoiceContact"
  /\ last.input = "naivas"
  /\ Len(cache) >= 2
  /\ cache[1].name = "Naivas"
  /\ Len(persisting) = 1
  /\ Len(persisting[1]) = Len(cache)
  /\ persisting[1][1].name = "naivas"

\* ------------------------------------------------------------------------
\* Overlapping directory calls: up to MaxOverlap saves and deletes are
\* suspended in persistContacts at one time and resume in any order.
\* ------------------------------------------------------------------------
MaxOverlap == 2

RacePool == {c \in ContactPool : c.name \in {"Mary", "Naivas", "naivas"}}
RaceDeleteNames == { "mary", "NAIVAS" }

NextRace ==
  \/ \E contact \in RacePool : Len(persisting) < MaxOverlap /\ SaveVoiceContact(contact)
  \/ \E name \in RaceDeleteNames : Len(persisting) < MaxOverlap /\ DeleteVoiceContact(name)
  \/ ClearVoiceContacts
  \/ \E i \in 1..Len(persisting), ok \in BOOLEAN : PersistDone(i, ok)

SpecRace == InitDir /\ [][NextRace]_vars

\* the list without its i-th element
Without(lists, i) == SubSeq(lists, 1, i - 1) \o SubSeq(lists, i + 1, Len(lists))

\* C21: a save or a delete computes its list from the directory as it is at
\* the call, whatever the calls still suspended are about to write; and each
\* persist step that completes makes the directory and the stored collection
\* equal to the list of its own call, so that after overlapping calls both
\* hold the list of the call whose persist step completed last.
C21_LastWriteWins ==
  [][/\ last'.op = "saveVoiceContact" =>
          persisting' = Append(persisting, SavedList(cache, effects'[1].contact))
     /\ last'.op = "deleteVoiceContact" =>
          persisting' = Append(persisting, DeletedList(cache, last'.input))
     /\ last'.op \in {"saveVoiceContact", "deleteVoiceContact"} =>
          UNCHANGED <<cache, persisted>>
     /\ (last'.op = "persist" /\ last'.input = "stored") =>
          \E i \in 1..Len(persisting) :
            /\ persisting' = Without(persisting, i)
            /\ cache' = persisting[i]
            /\ persisted' = persisting[i]
    ]_vars

\* two saves were called on the empty directory; the save of Mary has been
\* stored, and the save of Naivas is about to store a list without Mary
C21_Witness ==
  /\ last.op = "persist" /\ last.input = "stored"
  /\ Len(cache) = 1 /\ cache[1].name = "Mary"
  /\ persisted = cache
  /\ Len(persisting) = 1
  /\ Len(persisting[1]) = 1 /\ persisting[1][1].name = "Naivas"

\* the spoken target of a SEND_MONEY or POCHI command is a name made of
\* letters (and the spaces between its words), or a number
SpokenTargetIsName(spoken) ==
  /\ spoken.type \in {"SEND_MONEY", "POCHI"}
  /\ spoken.phone # ""
  /\ \A i \in 1..Len(spoken.phone) : ToLowerCh(Ch(spoken.phone, i)) \in LowerCh \cup SpaceCh

SpokenTargetIsNumber(spoken) ==
  /\ spoken.type \in {"SEND_MONEY", "POCHI"}
  /\ \A i \in 1..Len(spoken.phone) : Ch(spoken.phone, i) \in NumberCh

\* the activation whose intent the step about to be taken executes: the one
\* that hears the reply, or the one that set the intent a tap finds pending
\* (0 when that activation has returned and its transcript is not on record)
Executing(op, r) ==
  IF op = "reply" THEN r
  ELSE IF op = "confirm" /\ pendingIntentRef # NoIntent /\ pendingOwner \in 1..Len(runs)
          /\ runs[pendingOwner].pc # "done"
       THEN pendingOwner
  ELSE 0

\* C22: an execution, by voice or by tap, of a SEND_MONEY or POCHI intent
\* whose transcript names its target in letters issues one save of that name
\* with the intent's resolved phone; an execution of a PAYBILL, TILL or
\* WITHDRAW intent, or of an intent whose target was spoken as a number,
\* issues no save; and a save that fails afterwards calls nothing and leaves
\* the hook's state (idle, nothing pending) as it is.
C22_AutoSaveOnExecution ==
  [][/\ (Executing(last'.op, last'.run) # 0 /\ Calls("onVoiceSubmit")' # {}) =>
          LET run    == runs[Executing(last'.op, last'.run)]
              spoken == Parsed(run.raw)
          IN  /\ SubmittedIntents' = {run.intent}
              /\ (run.intent.type \in {"SEND_MONEY", "POCHI"} /\ SpokenTargetIsName(spoken)) =>
                   SavedContacts' = {[name |-> spoken.phone, type |-> Absent,
                                      phone |-> run.intent.phone, accountNumber |-> Absent]}
              /\ (run.intent.type \in DirectTypes \/ SpokenTargetIsNumber(spoken)) =>
                   SavedContacts' = {}
     /\ (last'.op = "persist" /\ last'.input = "failed") =>
          /\ effects' = <<>>
          /\ UNCHANGED <<hookVars, cache, persisted>>
    ]_vars

\* C23: every cancel() and every confirmation utterance that is not
\* affirmative calls onDismiss exactly once, and submits nothing.
C23_DismissOncePerEnding ==
  (\/ last.op = "cancel"
   \/ last.op = "reply" /\ ~BeginsWithAffirmative(last.input)) =>
    /\ Cardinality(Calls("onDismiss")) = 1
    /\ Calls("onVoiceSubmit") = {}

\* cancel() ends a session that was waiting for the confirmation
C23_Witness ==
  /\ last.op = "cancel"
  /\ Cardinality(Calls("onDismiss")) = 1
  /\ \E r \in 1..Len(runs) : runs[r].pc = "listen_confirm" /\ runs[r].cancelled

\* the first call of the kind among the latest step's calls comes before
\* every call in the set of positions
FirstBefore(kind, positions) ==
  \E i \in Calls(kind) : \A j \in positions : i < j

\* C24: a start() in a supported environment calls cancelSpeech before it
\* begins the capture; every step that submits, after a reply or after a
\* tap, calls cancelSpeech before it speaks the completion phrase and before
\* it calls onVoiceSubmit.
C24_SpeechCancelledFirst ==
  /\ (last.op = "start" /\ isSupported) =>
       /\ Calls("listenOnce") # {}
       /\ FirstBefore("cancelSpeech", Calls("listenOnce"))
  /\ Calls("onVoiceSubmit") # {} =>
       LET phrases == {i \in Calls("speak") : effects[i].text = SendingMsg} IN
       /\ phrases # {}
       /\ FirstBefore("cancelSpeech", phrases \cup Calls("onVoiceSubmit"))

\* the reply executes: the save, then cancelSpeech, the phrase, the callbacks
C24_Witness ==
  /\ last.op = "reply"
  /\ Len(effects) = 5
  /\ effects[1].call = "saveVoiceContact"
  /\ effects[2] = CancelSpeech
  /\ effects[3] = Speak(SendingMsg)
  /\ effects[5].call = "onVoiceSubmit"

\* the steps that end in setError
ErrorSteps == {"start", "captureFail", "capture"}

\* C25: the outcome of a speak call decides nothing. The readback is the
\* only speak call start() waits for, and the step taken when it settles is
\* the same whether it was spoken or failed: awaiting_confirmation is set,
\* the confirmation capture begins, the pending intent, the transcript and
\* the error message are kept, and no callback is called. Every other speak
\* call is left with a handler that does nothing: the step that reads an
\* error out sets error and makes no other call, so the state error does not
\* wait for the readout.
C25_SynthesisFailureNotFatal ==
  [][/\ last'.op = "readback" =>
          /\ state' = "awaiting_confirmation"
          /\ setStates' = <<"awaiting_confirmation">>
          /\ effects' = <<ListenOnce>>
          /\ runs' = [runs EXCEPT ![last'.run].pc = "listen_confirm"]
          /\ UNCHANGED <<pendingIntent, pendingIntentRef, transcript, transcriptRef,
                         errorMessage, pendingOwner, cache, persisted, persisting>>
     /\ (last'.op \in ErrorSteps /\ "error" \in {setStates'[i] : i \in DOMAIN setStates'}) =>
          /\ state' = "error"
          /\ errorMessage' # ""
          /\ effects' = <<Speak(errorMessage')>>
          /\ runs'[last'.run].pc = "done"
    ]_vars

\* the readback could not be spoken and the session awaits the confirmation
C25_Witness ==
  /\ last.op = "readback"
  /\ last.input = "failed"
  /\ state = "awaiting_confirmation"
  /\ pendingIntentRef # NoIntent
  /\ runs[last.run].pc = "listen_confirm"
  /\ effects = <<ListenOnce>>

\* C26: without speech capture support start() sets error with the
\* unsupported-browser message, starts no capture, and listening is never
\* entered: its activation is over and no activation is ever suspended. With
\* support, start() sets listening and begins the capture with the
\* transcript, the pending intent and the error message cleared.
C26_StartUnsupportedOrCleared ==
  /\ ~isSupported =>
       /\ state # "listening"
       /\ \A r \in 1..Len(runs) : runs[r].pc = "done"
       /\ Calls("listenOnce") = {}
  /\ (last.op = "start" /\ ~isSupported) =>
       /\ state = "error"
       /\ errorMessage = UnsupportedMsg
       /\ setStates = <<"error">>
       /\ effects = <<Speak(UnsupportedMsg)>>
  /\ (last.op = "start" /\ isSupported) =>
       /\ state = "listening"
       /\ transcript = "" /\ transcriptRef = ""
       /\ pendingIntent = NoIntent /\ pendingIntentRef = NoIntent
       /\ errorMessage = ""
       /\ effects = <<CancelSpeech, ListenOnce>>
       /\ runs[last.run].pc = "listen_main"

\* the second start() cleared the intent the first session had set pending
C26_Witness ==
  /\ last.op = "start"
  /\ last.run = 2
  /\ runs[1].abandoned
  /\ pendingIntentRef = NoIntent
  /\ state = "listening"

\* C27: the step on which the main capture fails, or on which the transcript
\* does not parse or does not resolve, sets error with a non-empty message
\* and speaks it, sets no pending intent, does not pass through confirming
\* or awaiting_confirmation, starts no capture and ends the activation; and
\* the state leaves error only by start() or cancel().
C27_FailuresTerminateInError ==
  [][/\ (\/ last'.op = "captureFail"
         \/ last'.op = "capture" /\ ~ResolveTranscript(last'.input, cache).ok) =>
          /\ state' = "error"
          /\ errorMessage' # ""
          /\ effects' = <<Speak(errorMessage')>>
          /\ UNCHANGED <<pendingIntent, pendingIntentRef>>
          /\ pendingOwner' # last'.run
          /\ \A i \in DOMAIN setStates' :
               setStates'[i] \notin {"confirming", "awaiting_confirmation"}
          /\ runs'[last'.run].pc = "done"
     /\ (state = "error" /\ state' # "error") => last'.op \in {"start", "cancel"}
    ]_vars

\* ------------------------------------------------------------------------
\* The intent parser on its own: parseIntent is called on a transcript made
\* of a frame and the amount spoken in it.
\* ------------------------------------------------------------------------
\* what is spoken before and after the amount
ParseFrames ==
  { <<"send ", " shillings to Dav">>,
    <<"Send ", " to 0712345678">>,
    <<"send ", "to mama">>,
    <<"pochi ", " to mama mboga">>,
    <<"pay bill 24 account 7 ", "">>,
    <<"paybill 247247 account 1234 amount ", "">>,
    <<"pay bill 24 ", "">>,
    <<" Pay Till 522533 ", " ">>,
    <<"buy goods 522533 amount ", "">>,
    <<"pay till ", "">>,
    <<"withdraw ", " agent 123456 store 789">>,
    <<"pay naivas ", "">>,
    <<"buy from mama amount ", "">>,
    <<"buy goods naivas ", "">>,
    <<"hello ", "">> }

\* the amounts spoken, with and without their commas
SpokenAmounts ==
  { "500", "1,000", "1000", "2,500.50", "2500.50", "12.5", "1,5", "15", "0", "1.000" }

InitParse == InitDir /\ cache = <<>>

\* a call of parseIntent(text)
ParseIntent(text) ==
  /\ last' = Step("parseIntent", 0, text, 0)
  /\ effects' = <<Return(parseIntent(text))>>
  /\ UNCHANGED <<cache, persisted, callVars, loadVars, sessionVars>>

NextParse ==
  \E frame \in ParseFrames, amount \in SpokenAmounts :
    ParseIntent(frame[1] \o amount \o frame[2])

SpecParse == InitParse /\ [][NextParse]_vars

\* the templates in the order in which parseIntent tries them
Templates == <<SendRe, PochiRe, PaybillRe, TillRe, WithdrawRe, NamedRe>>
TemplateTypes == <<"SEND_MONEY", "POCHI", "PAYBILL", "TILL", "WITHDRAW", "NAMED_PAYMENT">>

\* the templates the trimmed transcript matches
Matching(text) == {k \in DOMAIN Templates : Test(Templates[k], trim(text))}

\* C28: parseIntent returns an intent of the type of the first template, in
\* the order SEND_MONEY, POCHI, PAYBILL, TILL, WITHDRAW, NAMED_PAYMENT, that
\* the transcript matches, and none when it matches none; a transcript that
\* matches the PAYBILL, TILL or WITHDRAW template is not returned as
\* NAMED_PAYMENT, also when the pay <name> <amount> template matches it.
C28_TemplatePrecedence ==
  last.op = "parseIntent" =>
    LET matching == Matching(last.input) IN
    /\ matching = {} => Returned = NoIntent
    /\ matching # {} =>
         Returned.type = TemplateTypes[CHOOSE k \in matching : \A j \in matching : k <= j]
    /\ matching \cap {3, 4, 5} # {} => Returned.type # "NAMED_PAYMENT"

\* "pay till 522533 500" matches the generic template and yields TILL
C28_Witness ==
  /\ last.op = "parseIntent"
  /\ trim(last.input) = "Pay Till 522533 500"
  /\ {4, 6} \subseteq Matching(last.input)
  /\ Returned = [type |-> "TILL", amount |-> "500", till |-> "522533"]

\* one or more digits, optionally followed by a decimal point and digits
PlainAmount(amount) ==
  LET points == {i \in 1..Len(amount) : Ch(amount, i) = "."} IN
  /\ amount # ""
  /\ \A i \in 1..Len(amount) : Ch(amount, i) \in DigitCh \cup {"."}
  /\ Cardinality(points) <= 1
  /\ 1 \notin points /\ Len(amount) \notin points

\* C29: a transcript and the transcript with the commas taken out of its
\* amount yield the same intent; the amount of every intent returned has no
\* comma and is one or more digits, optionally followed by a decimal point
\* and digits; and normalizing it again leaves it unchanged.
C29_AmountNormalization ==
  last.op = "parseIntent" =>
    /\ \A frame \in ParseFrames, amount \in SpokenAmounts :
         last.input = frame[1] \o amount \o frame[2] =>
           Returned = parseIntent(frame[1] \o StripChars(amount, {","}) \o frame[2])
    /\ Returned # NoIntent =>
         /\ PlainAmount(Returned.amount)
         /\ normalizeAmount(Returned.amount) = Returned.amount

\* ------------------------------------------------------------------------
\* Sessions left to themselves: the user begins sessions and does nothing
\* else, and the capture or speak operation an activation of start() waits
\* for eventually settles, with success or with failure.
\* ------------------------------------------------------------------------
\* the operation activation r waits for settles
Complete(r) ==
  /\ r \in 1..Len(runs)
  /\ \/ \E err \in CaptureErrors : CaptureFail(r, err)
     \/ \E raw \in Vocabularies[vocabulary] : CaptureDone(r, raw)
     \/ \E spoken \in BOOLEAN : ReadbackDone(r, spoken)
     \/ ConfirmCaptureFail(r)
     \/ \E response \in Responses : ConfirmReply(r, response)

NextLive ==
  \/ Start
  \/ \E r \in 1..MaxStarts : Complete(r)
  \/ \E i \in 1..Len(persisting), ok \in BOOLEAN : PersistDone(i, ok)

SpecLive ==
  Init /\ [][NextLive]_vars /\ \A r \in 1..MaxStarts : WF_vars(Complete(r))

TransientStates == {"listening", "processing", "awaiting_confirmation"}

\* idle, error, or confirming with an intent a tap can execute
Settled ==
  \/ state \in {"idle", "error"}
  \/ state = "confirming" /\ pendingIntentRef # NoIntent

\* C30: when every capture and speak operation settles and the user takes
\* no action after the start(), every activation of start() returns, the
\* state does not stay listening, processing or awaiting_confirmation for
\* ever, and the session that no start() followed leaves the state idle,
\* error, or confirming with an intent pending for the tap.
C30_SessionsSettle ==
  /\ \A r \in 1..MaxStarts :
       (r \in 1..Len(runs)) ~> (r \in 1..Len(runs) /\ runs[r].pc = "done")
  /\ (state \in TransientStates) ~> (state \notin TransientStates)
  /\ []((last.op \in CompletionOps /\ last.run = Len(runs) /\ runs[last.run].pc = "done")
          => Settled)

\* C31: in idle, listening, processing and error no pending intent is held,
\* and in confirming and awaiting_confirmation one is held; so a tap never
\* finds an intent to execute while the state is idle or error.
C31_StateAndPendingConsistent ==
  /\ state \in {"idle", "listening", "processing", "error"} =>
       pendingIntent = NoIntent /\ pendingIntentRef = NoIntent
  /\ state \in {"confirming", "awaiting_confirmation"} =>
       pendingIntent # NoIntent /\ pendingIntentRef # NoIntent

\* the phone is what resolvePhoneOrName returns for the spoken target: the
\* target normalized when it is phone-shaped, else the stored phone of a
\* contact a phone lookup may use
ProducedByLookup(phone, target, contacts) ==
  /\ resolvePhoneOrName(contacts, target) = [found |-> TRUE, phone |-> phone]
  /\ \/ PhoneShaped(trim(target)) /\ phone = normalizePhone(trim(target))
     \/ \E i \in 1..Len(contacts) : IsMobileType(contacts[i]) /\ contacts[i].phone = phone

\* the spoken target, without spaces, dashes, parentheses and plus signs,
\* begins with a digit
BeginsWithDigit(target) ==
  LET bare == StripChars(target, SpaceCh \cup {"-", "(", ")", "+"}) IN
  bare # "" /\ Head(bare) \in DigitCh

\* the capture sets no intent pending, reads nothing back and ends in error
EndsUnresolved(run) ==
  /\ state' = "error"
  /\ pendingOwner' # run
  /\ runs'[run].pc = "done"
  /\ Calls("describeIntent")' = {}
  /\ Calls("onVoiceSubmit")' = {}

\* the capture sets the intent pending and reads it back
SetsPending(run, intent) ==
  /\ pendingIntent' = intent /\ pendingIntentRef' = intent
  /\ runs'[run].intent = intent
  /\ effects' = <<Describe(intent), Speak(ConfirmPrompt(describeIntent(intent)))>>

\* the reply of a session that heard a SEND_MONEY or POCHI command submits
\* the intent the session has kept since its capture
SubmitsKeptIntent ==
  (last'.op = "reply" /\ KeepsType(runs[last'.run], {"SEND_MONEY", "POCHI"})
     /\ Calls("onVoiceSubmit")' # {}) =>
    SubmittedIntents' = {runs[last'.run].intent}

NamedAlready(contacts, name) ==
  FirstIndex([i \in 1..Len(contacts) |->
                toLowerCase(contacts[i].name) = toLowerCase(name)])

\* C33: when an execution auto-saves a name that (ignoring case) a contact
\* of the directory already bears, the list it stores has as many contacts
\* as the directory and keeps that contact's type and account number; and
\* the save, once completed alone, makes that list the directory.
C33_AutoSaveKeepsContact ==
  [][/\ (Len(persisting') = Len(persisting) + 1 /\ Calls("onVoiceSubmit")' # {}) =>
          \A contact \in SavedContacts' :
            LET existing == NamedAlready(cache, contact.name)
                stored   == persisting'[Len(persisting')]
            IN  existing > 0 =>
                  /\ Len(stored) = Len(cache)
                  /\ stored[existing].type = cache[existing].type
                  /\ stored[existing].accountNumber = cache[existing].accountNumber
     /\ (last'.op = "persist" /\ last'.input = "stored" /\ Len(persisting) = 1) =>
          cache' = persisting[1] /\ persisted' = persisting[1]
    ]_vars

\* ------------------------------------------------------------------------
\* Directory initialization (initVoiceContacts) and the operations around it
\* ------------------------------------------------------------------------
\* initVoiceContacts calls suspended at once
MaxInits == 1

\* what an earlier visit left in storage
StoredDirectory == LegacyDirectory

PlainStorage == [raw |-> "plain", readable |-> FALSE, passphrase |-> FALSE]

\* the page has loaded and nothing has run: the storage is empty, holds the
\* encrypted directory (the session storage holds its plain text when the
\* tab was reloaded) or holds the plain directory of an earlier version
InitLoad ==
  /\ state = "idle"
  /\ transcript = ""
  /\ pendingIntent = NoIntent
  /\ errorMessage = ""
  /\ pendingIntentRef = NoIntent
  /\ transcriptRef = ""
  /\ isSupported = TRUE
  /\ runs = <<>>
  /\ cache = <<>>
  /\ initialised = FALSE
  /\ \/ storage = NoStorage /\ persisted = <<>> /\ session = NoSession
     \/ /\ storage = Encrypted(TRUE)
        /\ persisted = StoredDirectory
        /\ session \in {NoSession, InSession(StoredDirectory)}
     \/ storage = PlainStorage /\ persisted = StoredDirectory /\ session = NoSession
  /\ persisting = <<>>
  /\ persistMeta = <<>>
  /\ decrypting = <<>>
  /\ effects = <<>>
  /\ last = Step("mount", 0, "", 0)
  /\ setStates = <<>>
  /\ vocabulary = 1
  /\ pendingOwner = 0
  /\ prefs = FreshPrefs
  /\ services = <<>>

\* initVoiceContacts() up to its first await, or to its end when it has none
InitVoiceContacts ==
  /\ last' = Step("initVoiceContacts", 0, "", 0)
  /\ effects' = <<>>
  /\ IF initialised
     THEN UNCHANGED <<cache, initialised, decrypting, callVars>>
     ELSE IF session.present
     THEN /\ cache' = session.contacts
          /\ initialised' = TRUE
          /\ UNCHANGED <<decrypting, callVars>>
     ELSE IF storage.raw = "blob" /\ storage.passphrase
     THEN /\ decrypting' = Append(decrypting, [ok |-> storage.readable, contacts |-> persisted])
          /\ UNCHANGED <<cache, initialised, callVars>>
     ELSE IF storage.raw = "plain"
     THEN /\ PersistContacts(persisted, TRUE)
          /\ UNCHANGED <<cache, initialised, decrypting>>
     ELSE /\ cache' = <<>>
          /\ initialised' = TRUE
          /\ UNCHANGED <<decrypting, callVars>>
  /\ UNCHANGED <<persisted, session, sessionVars>>

\* the decryption awaited by initVoiceContacts settles: the call sets _cache
\* and the session storage, or its catch leaves the directory empty
DecryptDone(i) ==
  /\ i \in 1..Len(decrypting)
  /\ last' = Step("decrypt", 0, IF decrypting[i].ok THEN "decrypted" ELSE "failed", 0)
  /\ effects' = <<>>
  /\ decrypting' = SubSeq(decrypting, 1, i - 1) \o SubSeq(decrypting, i + 1, Len(decrypting))
  /\ initialised' = TRUE
  /\ IF decrypting[i].ok
     THEN /\ cache' = decrypting[i].contacts
          /\ session' = InSession(decrypting[i].contacts)
     ELSE /\ cache' = <<>>
          /\ UNCHANGED session
  /\ UNCHANGED <<persisted, callVars, sessionVars>>

NextLoad ==
  \/ Len(decrypting) < MaxInits /\ Len(persisting) < MaxInFlight /\ InitVoiceContacts
  \/ \E i \in 1..Len(decrypting) : DecryptDone(i)
  \/ \E contact \in RacePool : Len(persisting) < MaxInFlight /\ SaveVoiceContact(contact)
  \/ \E name \in RaceDeleteNames : Len(persisting) < MaxInFlight /\ DeleteVoiceContact(name)
  \/ ClearVoiceContacts
  \/ \E i \in 1..Len(persisting), ok \in BOOLEAN : PersistDone(i, ok)

SpecLoad == InitLoad /\ [][NextLoad]_vars

Range(list) == {list[i] : i \in 1..Len(list)}

\* a contact that no save and no delete of the directory's callers names
Untouched(contact) ==
  /\ \A c \in RacePool : toLowerCase(c.name) # toLowerCase(contact.name)
  /\ \A name \in RaceDeleteNames : toLowerCase(name) # toLowerCase(contact.name)

\* the initialization and every operation have completed
Quiescent == initialised /\ decrypting = <<>> /\ persisting = <<>>

\* C34: with saves and deletes issued at any moment, before the
\* initialization has completed included, no step other than a clear removes
\* from the storage a contact that no save or delete names, and once the
\* initialization and the operations have completed, with the storage
\* readable, the directory holds every such contact of the storage.
C34_EarlyOperationsKeepStored ==
  /\ [][last'.op # "clearVoiceContacts" =>
         \A contact \in Range(persisted) :
           Untouched(contact) => contact \in Range(persisted')]_vars
  /\ []((Quiescent /\ storage.raw = "blob" /\ storage.readable) =>
         \A contact \in Range(persisted) : Untouched(contact) => contact \in Range(cache))

\* what the storage holds for a later visit: what initVoiceContacts reads
\* from it when the session storage is empty
StoreContents ==
  IF storage.raw = "plain" THEN persisted
  ELSE IF storage.raw = "blob" /\ storage.passphrase /\ storage.readable THEN persisted
  ELSE <<>>

\* C35: whenever the initialization has completed and no save, delete or
\* initialization is suspended, the directory in memory equals what the
\* storage holds.
C35_MirrorEqualsStore ==
  Quiescent => cache = StoreContents

\* ------------------------------------------------------------------------
\* Android receiver (PesaMirrorMessagingService, FirebaseTriggerService)
\* ------------------------------------------------------------------------
\* service starts requested and not yet delivered
MaxQueued == 1

\* data["body"] of the messages received ("": the field is absent or empty)
Bodies ==
  { "SM|0712345678|1000", "SM|1000", "sm| |500", "SM|", "SM", "SM|0712345678| ",
    "PLB|0712345678|50", "PLB||50", " bg|522533| 100 ", "BG|522533",
    "PB|247247|500|1234", "PB|247247|500| ", "PB|247247|500",
    "WA|123456|2000|789", "WA||2000|789", "XX|1|2", "  ", "" }

\* KEY_USSD_PIN as the settings left it ("": not stored)
StoredPins == { "", "  ", "1234", " 1234 " }

isBlank(s) == trim(s) = ""

equalsIgnoreCase(a, b) == toLowerCase(a) = toLowerCase(b)

\* s.split("|"): the stretches between the bars, empty ones included
RECURSIVE SplitBars(_, _)
SplitBars(s, cur) ==
  IF s = "" THEN <<cur>>
  ELSE IF Head(s) = "|" THEN <<cur>> \o SplitBars(Tail(s), "")
  ELSE SplitBars(Tail(s), cur \o Head(s))

\* body.split("|").map { it.trim() }
Parts(body) ==
  LET raw == SplitBars(body, "") IN [i \in 1..Len(raw) |-> trim(raw[i])]

\* getOrNull(i).orEmpty(), the first part being part 0
PartOrEmpty(parts, i) == IF i + 1 <= Len(parts) THEN parts[i + 1] ELSE ""

NoUssd == [mode |-> "none"]
Ussd(mode, amount, phone, till, business, account, agent, store) ==
  [mode |-> mode, amount |-> amount, phone |-> phone, till |-> till,
   business |-> business, account |-> account, agent |-> agent, store |-> store]

\* mutant: a paybill trigger needs no account number
M_triggerUssdFromBodyNoAccount(pin, body) ==
  LET parts == Parts(body)
      mode  == parts[1]
  IN  IF isBlank(pin) THEN NoUssd
      ELSE IF equalsIgnoreCase(mode, "SM") /\ Len(parts) >= 2
        THEN LET phone  == IF Len(parts) >= 3 THEN parts[2] ELSE ""
                 amount == IF Len(parts) >= 3 THEN parts[3] ELSE parts[2]
             IN  IF ~isBlank(amount)
                 THEN Ussd("MODE_SEND_MONEY", amount, phone, "", "", "", "", "")
                 ELSE NoUssd
      ELSE IF Len(parts) >= 3 /\ equalsIgnoreCase(mode, "PLB")
        THEN IF ~isBlank(PartOrEmpty(parts, 1)) /\ ~isBlank(PartOrEmpty(parts, 2))
             THEN Ussd("MODE_POCHI", PartOrEmpty(parts, 2), PartOrEmpty(parts, 1), "", "", "", "", "")
             ELSE NoUssd
      ELSE IF Len(parts) >= 3 /\ equalsIgnoreCase(mode, "BG")
        THEN IF ~isBlank(PartOrEmpty(parts, 1)) /\ ~isBlank(PartOrEmpty(parts, 2))
             THEN Ussd("MODE_TILL", PartOrEmpty(parts, 2), "", PartOrEmpty(parts, 1), "", "", "", "")
             ELSE NoUssd
      ELSE IF Len(parts) >= 4 /\ equalsIgnoreCase(mode, "PB")
        THEN IF ~isBlank(PartOrEmpty(parts, 1)) /\ ~isBlank(PartOrEmpty(parts, 2))
             THEN Ussd("MODE_PAYBILL", PartOrEmpty(parts, 2), "", "",
                       PartOrEmpty(parts, 1), PartOrEmpty(parts, 3), "", "")
             ELSE NoUssd
      ELSE IF Len(parts) >= 4 /\ equalsIgnoreCase(mode, "WA")
        THEN IF ~isBlank(PartOrEmpty(parts, 1)) /\ ~isBlank(PartOrEmpty(parts, 2))
                /\ ~isBlank(PartOrEmpty(parts, 3))
             THEN Ussd("MODE_WITHDRAW", PartOrEmpty(parts, 2), "", "", "", "",
                       PartOrEmpty(parts, 1), PartOrEmpty(parts, 3))
             ELSE NoUssd
      ELSE NoUssd

\* triggerUssdFromBody(body) with the trimmed pin read from the preferences:
\* the arguments it hands to startUssd, or NoUssd when it returns without
triggerUssdFromBody(pin, body) ==
  LET parts == Parts(body)
      mode  == parts[1]
  IN  IF isBlank(pin) THEN NoUssd
      ELSE IF equalsIgnoreCase(mode, "SM") /\ Len(parts) >= 2
        THEN LET phone  == IF Len(parts) >= 3 THEN parts[2] ELSE ""
                 amount == IF Len(parts) >= 3 THEN parts[3] ELSE parts[2]
             IN  IF ~isBlank(amount)
                 THEN Ussd("MODE_SEND_MONEY", amount, phone, "", "", "", "", "")
                 ELSE NoUssd
      ELSE IF Len(parts) >= 3 /\ equalsIgnoreCase(mode, "PLB")
        THEN IF ~isBlank(PartOrEmpty(parts, 1)) /\ ~isBlank(PartOrEmpty(parts, 2))
             THEN Ussd("MODE_POCHI", PartOrEmpty(parts, 2), PartOrEmpty(parts, 1), "", "", "", "", "")
             ELSE NoUssd
      ELSE IF Len(parts) >= 3 /\ equalsIgnoreCase(mode, "BG")
        THEN IF ~isBlank(PartOrEmpty(parts, 1)) /\ ~isBlank(PartOrEmpty(parts, 2))
             THEN Ussd("MODE_TILL", PartOrEmpty(parts, 2), "", PartOrEmpty(parts, 1), "", "", "", "")
             ELSE NoUssd
      ELSE IF Len(parts) >= 4 /\ equalsIgnoreCase(mode, "PB")
        THEN IF ~isBlank(PartOrEmpty(parts, 1)) /\ ~isBlank(PartOrEmpty(parts, 2))
                /\ ~isBlank(PartOrEmpty(parts, 3))
             THEN Ussd("MODE_PAYBILL", PartOrEmpty(parts, 2), "", "",
                       PartOrEmpty(parts, 1), PartOrEmpty(parts, 3), "", "")
             ELSE NoUssd
      ELSE IF Len(parts) >= 4 /\ equalsIgnoreCase(mode, "WA")
        THEN IF ~isBlank(PartOrEmpty(parts, 1)) /\ ~isBlank(PartOrEmpty(parts, 2))
                /\ ~isBlank(PartOrEmpty(parts, 3))
             THEN Ussd("MODE_WITHDRAW", PartOrEmpty(parts, 2), "", "", "", "",
                       PartOrEmpty(parts, 1), PartOrEmpty(parts, 3))
             ELSE NoUssd
      ELSE NoUssd

StartService(body) == [call |-> "startForegroundService", body |-> body]
StartActivity(started) == [call |-> "startActivity", uri |-> "tel:*334#", started |-> started]

webVars == << hookVars, isSupported, runs, setStates, vocabulary, pendingOwner,
              cache, persisted, callVars, loadVars >>

\* the installation as the settings left it: the push trigger on or off, a
\* PIN stored or not
InitReceiver ==
  /\ state = "idle"
  /\ transcript = ""
  /\ pendingIntent = NoIntent
  /\ errorMessage = ""
  /\ pendingIntentRef = NoIntent
  /\ transcriptRef = ""
  /\ isSupported = TRUE
  /\ runs = <<>>
  /\ cache = <<>>
  /\ persisted = <<>>
  /\ persisting = <<>>
  /\ Loaded
  /\ \E enabled \in BOOLEAN, pin \in StoredPins :
       prefs = [FreshPrefs EXCEPT !.pushTriggerEnabled = enabled, !.pin = pin]
  /\ services = <<>>
  /\ effects = <<>>
  /\ last = Step("mount", 0, "", 0)
  /\ setStates = <<>>
  /\ vocabulary = 1
  /\ pendingOwner = 0

\* onMessageReceived(remoteMessage) with data["body"] = body
OnMessageReceived(body) ==
  /\ last' = Step("onMessageReceived", 0, body, 0)
  /\ IF ~prefs.pushTriggerEnabled \/ isBlank(body)
     THEN effects' = <<>> /\ UNCHANGED services
     ELSE /\ effects' = <<StartService(trim(body))>>
          /\ services' = Append(services, trim(body))
  /\ UNCHANGED <<prefs, webVars>>

\* startUssd: the request is stored, the flag set and *334# dialled; the
\* flag is taken back when the call activity cannot be started
startUssd(pin, ussd, started) ==
  [prefs EXCEPT !.pending = started, !.ussdState = "", !.mode = ussd.mode,
                !.amount = ussd.amount, !.pin = pin, !.phone = ussd.phone,
                !.till = ussd.till, !.business = ussd.business,
                !.account = ussd.account, !.agent = ussd.agent, !.store = ussd.store]

\* onStartCommand(intent) of the service started first; started tells
\* whether startActivity returns or throws
OnStartCommand(started) ==
  /\ services # <<>>
  /\ LET body == trim(Head(services))
         pin  == trim(prefs.pin)
         ussd == IF isBlank(body) THEN NoUssd ELSE triggerUssdFromBody(pin, body)
     IN  /\ last' = Step("onStartCommand", 0, Head(services), 0)
         /\ IF ussd = NoUssd
            THEN effects' = <<>> /\ UNCHANGED prefs
            ELSE /\ effects' = <<StartActivity(started)>>
                 /\ prefs' = startUssd(pin, ussd, started)
  /\ services' = Tail(services)
  /\ UNCHANGED webVars

NextReceiver ==
  \/ \E body \in Bodies : Len(services) < MaxQueued /\ OnMessageReceived(body)
  \/ \E started \in BOOLEAN : OnStartCommand(started)

SpecReceiver == InitReceiver /\ [][NextReceiver]_vars

\* the step dialled *334#
DialStarted == \E i \in 1..Len(effects) :
                 effects[i].call = "startActivity" /\ effects[i].started

\* the body names PLB, BG, PB or WA with every field of that mode filled
NamesFilledMode(parts) ==
  \/ /\ \E mode \in {"PLB", "BG"} : equalsIgnoreCase(parts[1], mode)
     /\ Len(parts) >= 3 /\ parts[2] # "" /\ parts[3] # ""
  \/ /\ \E mode \in {"PB", "WA"} : equalsIgnoreCase(parts[1], mode)
     /\ Len(parts) >= 4 /\ parts[2] # "" /\ parts[3] # "" /\ parts[4] # ""

\* SM with a recipient phone and an amount
NamesSendWithPhone(parts) ==
  /\ equalsIgnoreCase(parts[1], "SM")
  /\ Len(parts) >= 3 /\ parts[2] # "" /\ parts[3] # ""

\* SM with an amount: the second of two parts, or the third of three or more
NamesSendWithAmount(parts) ==
  /\ equalsIgnoreCase(parts[1], "SM")
  /\ \/ Len(parts) = 2 /\ parts[2] # ""
     \/ Len(parts) >= 3 /\ parts[3] # ""

\* a message is handed to the trigger service only when the push trigger is
\* enabled and its body is not blank
HandedOverWhenEnabled ==
  /\ last'.op = "onMessageReceived" =>
       /\ ~DialStarted' /\ prefs' = prefs
       /\ IF prefs.pushTriggerEnabled /\ ~isBlank(last'.input)
          THEN services' = Append(services, trim(last'.input))
          ELSE services' = services
  /\ \A i \in 1..Len(services) : prefs.pushTriggerEnabled /\ ~isBlank(services[i])

\* C36 as stated: *334# is dialled for a message only when the push trigger
\* is enabled, the body is not blank, a PIN is stored and the body names SM
\* with a phone and an amount, or PLB, BG, PB or WA with its fields; in every
\* other case nothing is dialled and the pending flag is left as it is.
C36_DialOnlyForCompleteTrigger ==
  [][/\ HandedOverWhenEnabled
     /\ last'.op = "onStartCommand" =>
          LET parts == Parts(trim(last'.input)) IN
          IF /\ ~isBlank(prefs.pin)
             /\ NamesSendWithPhone(parts) \/ NamesFilledMode(parts)
          THEN DialStarted' => prefs'.pending
          ELSE ~DialStarted' /\ prefs'.pending = prefs.pending
    ]_vars

\* C36, amended: as stated, but SM needs an amount only: the recipient phone
\* may be blank or missing, and the request is then stored with no phone.
C36_DialOnlyForTriggerWithAmount ==
  [][/\ HandedOverWhenEnabled
     /\ last'.op = "onStartCommand" =>
          LET parts == Parts(trim(last'.input)) IN
          IF /\ ~isBlank(prefs.pin)
             /\ NamesSendWithAmount(parts) \/ NamesFilledMode(parts)
          THEN /\ DialStarted' => prefs'.pending
               /\ Len(effects') = 1 /\ effects'[1].call = "startActivity"
               /\ prefs'.pending = effects'[1].started
          ELSE ~DialStarted' /\ prefs'.pending = prefs.pending /\ prefs' = prefs
    ]_vars

\* SM|1000 is dialled with no recipient
C36_Witness ==
  /\ last.op = "onStartCommand"
  /\ last.input = "SM|1000"
  /\ DialStarted
  /\ prefs.pending
  /\ prefs.mode = "MODE_SEND_MONEY" /\ prefs.amount = "1000" /\ prefs.phone = ""
====
